---- MODULE Spec2Model ----
(***************************************************************************)
(* Model of the skill testing framework (src/skill_testing_framework):     *)
(* skill_schema.py (Skill, TriggerRule, SkillRegistry),                    *)
(* integration_test_framework.py (SkillIntegrationTester),                 *)
(* e2e_test_framework.py (E2ETestRunner, RegressionDetector) and           *)
(* test_runner.py (UnifiedTestRunner).                                     *)
(*                                                                         *)
(* Python str values are sequences of code points (97 = "a", 65 = "A",     *)
(* 64 = "@", 46 = ".", 48..57 = "0".."9"), so that lower(), substring      *)
(* search, concatenation and lexicographic comparison are computed.        *)
(* Python values handed to skills are records [type, repr]; None is        *)
(* [type |-> "NoneType", repr |-> "None"].                                 *)
(***************************************************************************)
EXTENDS Integers, Sequences, FiniteSets, TLC

VARIABLES
    registry,      \* SkillRegistry.skills: insertion-ordered dict, a sequence of [key, skill]
    invocations,   \* SkillIntegrationTester.invocations
    int_results,   \* SkillIntegrationTester.results
    e2e_results,   \* E2ETestRunner.results
    executions,    \* E2ETestRunner.executions
    all_results,   \* UnifiedTestRunner.all_results
    baseline,      \* contents of baseline_metrics.json: <<>> (no file) or <<snapshot>>
    last           \* the last operation performed: its name, inputs and outcome

vars == <<registry, invocations, int_results, e2e_results, executions, all_results, baseline, last>>

----------------------------------------------------------------------------
(* Bounds of the model *)

\* longest registry (number of distinct keys ever stored)
MaxRegistry == 3
\* longest invocation ledger kept by one integration tester
MaxInvocations == 3

----------------------------------------------------------------------------
(* Python strings *)

None == [type |-> "NoneType", repr |-> "None"]

\* n copies of the code point c
RECURSIVE Rep(_, _)
Rep(c, n) == IF n <= 0 THEN <<>> ELSE <<c>> \o Rep(c, n - 1)

\* str.lower() on one code point: "A".."Z" map to "a".."z"
LowerChar(c) == IF c >= 65 /\ c <= 90 THEN c + 32 ELSE c

\* str.lower()
Lower(s) == [i \in 1..Len(s) |-> LowerChar(s[i])]

\* the `in` operator on two str: sub occurs in s as a contiguous slice
Contains(s, sub) ==
    \E i \in 0..(Len(s) - Len(sub)) : SubSeq(s, i + 1, i + Len(sub)) = sub

\* s < t in Python's str ordering (lexicographic by code point)
RECURSIVE StrLess(_, _)
StrLess(s, t) ==
    IF t = <<>> THEN FALSE
    ELSE IF s = <<>> THEN TRUE
    ELSE IF Head(s) # Head(t) THEN Head(s) < Head(t)
    ELSE StrLess(Tail(s), Tail(t))

\* truthiness of a str, list or dict size
Truthy(s) == Len(s) > 0

----------------------------------------------------------------------------
(* skill_schema.py: the entity catalog *)

\* the code points of the names used below
NameCr   == <<99, 114>>            \* "cr"
NameTg   == <<116, 103>>           \* "tg"
NameA    == <<97>>                 \* "a"
NameAB   == <<97, 64, 98>>         \* "a@b"
Ver100   == <<49, 46, 48, 46, 48>>         \* "1.0.0"
Ver900   == <<57, 46, 48, 46, 48>>         \* "9.0.0"
Ver1000  == <<49, 48, 46, 48, 46, 48>>     \* "10.0.0"
Ver1     == <<49>>                 \* "1"
VerB1    == <<98, 64, 49>>         \* "b@1"
Empty    == <<>>                   \* ""


\* a Python str value handed to a skill as a parameter or returned by it
Str(x) == [type |-> "str", repr |-> x]
PyInt(x) == [type |-> "int", repr |-> x]
PyDict(x) == [type |-> "dict", repr |-> x]

\* an object whose comparison raises: __eq__ raises, or gives a value without
\* a truth value (an array compared element by element)
PyArray == [type |-> "ndarray", repr |-> "array"]

\* dict.get(k) on a dict kept as a set of <<key, value>> pairs: None when absent
DictGet(d, k) ==
    IF \E p \in d : p[1] = k THEN (CHOOSE p \in d : p[1] = k)[2] ELSE None

TriggerRule(ct, pat, prio, reqs) ==
    [condition_type |-> ct, pattern |-> pat, priority |-> prio,
     context_requirements |-> reqs]

SkillParameter(n, t, req, dflt, desc, val) ==
    [name |-> n, type |-> t, required |-> req, default |-> dflt,
     description |-> desc, validation |-> val]

SkillMetadata(n, v, desc, auth) ==
    [name |-> n, version |-> v, description |-> desc, author |-> auth]

Skill(md, trig, params, impl, tmpl, ex, rf) ==
    [metadata |-> md, triggers |-> trig, parameters |-> params,
     implementation |-> impl, prompt_template |-> tmpl,
     examples |-> ex, red_flags |-> rf]

\* the validation callables of example_skills.py, and "non_empty" for
\* lambda x: len(x) > 0; "None" is no validator
Accepts(validation, value) ==
    CASE validation = "in_frameworks" ->
            value \in {Str("pytest"), Str("unittest"), Str("nose")}
      [] validation = "in_refactor_types" ->
            value \in {Str("extract_function"), Str("rename_variable"),
                       Str("simplify"), Str("remove_duplication")}
      [] validation = "non_empty" -> value.repr # ""
      [] OTHER -> TRUE

\* faulty variant of the parameter loop: it stops at the first offending one
RECURSIVE RequiredDefaultErrorsFirstOnly(_)
RequiredDefaultErrorsFirstOnly(params) ==
    IF params = <<>> THEN <<>>
    ELSE IF Head(params).required /\ Head(params).default # None
    THEN << <<"Required parameter cannot have default value", Head(params).name>> >>
    ELSE RequiredDefaultErrorsFirstOnly(Tail(params))

\* faulty variant of validate: only the metadata is looked at
ValidateMetadataOnly(skill) ==
    (IF ~Truthy(skill.metadata.name)
     THEN << <<"Skill name is required", "">> >> ELSE <<>>)
    \o (IF ~Truthy(skill.metadata.version)
        THEN << <<"Skill version is required", "">> >> ELSE <<>>)
    \o (IF ~Truthy(skill.metadata.description)
        THEN << <<"Skill description is required", "">> >> ELSE <<>>)

\* Skill.validate: the list of errors, in the order the checks are made
RECURSIVE RequiredDefaultErrors(_)
RequiredDefaultErrors(params) ==
    IF params = <<>> THEN <<>>
    ELSE (IF Head(params).required /\ Head(params).default # None
          THEN << <<"Required parameter cannot have default value", Head(params).name>> >>
          ELSE <<>>)
         \o RequiredDefaultErrors(Tail(params))

Validate(skill) ==
    (IF ~Truthy(skill.metadata.name)
     THEN << <<"Skill name is required", "">> >> ELSE <<>>)
    \o (IF ~Truthy(skill.metadata.version)
        THEN << <<"Skill version is required", "">> >> ELSE <<>>)
    \o (IF ~Truthy(skill.metadata.description)
        THEN << <<"Skill description is required", "">> >> ELSE <<>>)
    \o (IF ~Truthy(skill.triggers)
        THEN << <<"At least one trigger rule is required", "">> >> ELSE <<>>)
    \o RequiredDefaultErrors(skill.parameters)
    \o (IF skill.implementation = "None" /\ ~Truthy(skill.prompt_template)
        THEN << <<"Either implementation or prompt_template is required", "">> >>
        ELSE <<>>)


----------------------------------------------------------------------------
(* The skills of the model: the three of example_skills.py (shortened names *)
(* and texts), further versions of one of them, two skills whose            *)
(* name@version keys coincide, and skills that validate() rejects.          *)

Desc20 == Rep(100, 20)     \* a description of 20 characters
Desc10 == Rep(100, 10)     \* a parameter description of 10 characters
Author == <<101, 116>>     \* "et"
Tmpl   == <<116>>          \* a non-empty prompt template
PatAb  == <<97, 98>>       \* "ab"
PatBa  == <<98, 97>>       \* "ba"

KeywordRule == TriggerRule("keyword", PatAb, 10, {})
KeywordRuleBa == TriggerRule("keyword", PatBa, 10, {})
ContextRule == TriggerRule("context", <<114>>, 5, {<<"action", Str("review")>>})
AutoRule    == TriggerRule("auto", PatAb, 0, {})

CodeParam     == SkillParameter("code", "str", TRUE, None, Desc10, "None")
LanguageParam == SkillParameter("language", "str", FALSE, Str("python"), Desc10, "None")
ProjectDirParam == SkillParameter("_project_dir", "str", FALSE, None, Desc10, "None")
FrameworkParam ==
    SkillParameter("test_framework", "str", FALSE, Str("pytest"), Desc10, "in_frameworks")
RefactorTypeParam ==
    SkillParameter("refactor_type", "str", TRUE, None, Desc10, "in_refactor_types")
FunctionNameParam == SkillParameter("function_name", "str", TRUE, None, Desc10, "None")
FunctionCodeParam == SkillParameter("function_code", "str", TRUE, None, Desc10, "None")

\* create_code_review_skill, in the version v
CodeReview(v) ==
    Skill(SkillMetadata(NameCr, v, Desc20, Author),
          <<KeywordRule, KeywordRuleBa, ContextRule>>,
          <<CodeParam, LanguageParam, ProjectDirParam>>,
          "impl", Tmpl, <<"example">>, <<"red flag">>)

\* create_test_generator_skill
TestGenerator ==
    Skill(SkillMetadata(NameTg, Ver100, Desc20, Author),
          <<KeywordRule, KeywordRuleBa>>,
          <<FunctionNameParam, FunctionCodeParam, FrameworkParam, ProjectDirParam>>,
          "impl", Tmpl, <<"example">>, <<"red flag">>)

\* the _project_dir parameter of create_refactor_skill: no description given
BareProjectDirParam == SkillParameter("_project_dir", "str", FALSE, None, Empty, "None")

\* create_refactor_skill: one parameter with a validator, one without description
Refactor ==
    Skill(SkillMetadata(<<114, 102>>, Ver100, Desc20, Author),
          <<KeywordRule>>,
          <<CodeParam, RefactorTypeParam, BareProjectDirParam>>,
          "impl", Empty, <<"example">>, <<"red flag">>)

\* "a" in version "b@1": a prompt template and no implementation
SkillA == Skill(SkillMetadata(NameA, VerB1, Desc20, Author),
                <<KeywordRule>>, <<>>, "None", Tmpl, <<>>, <<>>)
\* "a@b" in version "1": the same key "a@b@1", only an automatic trigger
SkillAB == Skill(SkillMetadata(NameAB, Ver1, Desc20, Empty),
                 <<AutoRule>>, <<CodeParam>>, "impl", Empty, <<>>, <<>>)

ValidSkills ==
    {CodeReview(Ver100), CodeReview(Ver900), CodeReview(Ver1000),
     TestGenerator, Refactor, SkillA, SkillAB}

\* skills with one defect each, and one with two
InvalidSkills ==
    {Skill(SkillMetadata(Empty, Ver100, Desc20, Author),
           <<KeywordRule>>, <<CodeParam>>, "impl", Tmpl, <<>>, <<>>),
     Skill(SkillMetadata(NameCr, Empty, Desc20, Author),
           <<KeywordRule>>, <<CodeParam>>, "impl", Tmpl, <<>>, <<>>),
     Skill(SkillMetadata(NameCr, Ver100, Empty, Author),
           <<KeywordRule>>, <<CodeParam>>, "impl", Tmpl, <<>>, <<>>),
     Skill(SkillMetadata(NameCr, Ver100, Desc20, Author),
           <<>>, <<CodeParam>>, "impl", Tmpl, <<>>, <<>>),
     Skill(SkillMetadata(NameCr, Ver100, Desc20, Author),
           <<KeywordRule>>,
           <<SkillParameter("code", "str", TRUE, Str("x"), Desc10, "None")>>,
           "impl", Tmpl, <<>>, <<>>),
     Skill(SkillMetadata(NameCr, Ver100, Desc20, Author),
           <<KeywordRule>>, <<CodeParam>>, "None", Empty, <<>>, <<>>),
     Skill(SkillMetadata(NameTg, Empty, Desc20, Author),
           <<>>, <<CodeParam>>, "impl", Tmpl, <<>>, <<>>)}

SkillPool == ValidSkills \cup InvalidSkills

\* the skills offered to register: three versions of one name, the two skills
\* that share a key, and the invalid ones
RegisterPool ==
    {CodeReview(Ver100), CodeReview(Ver900), CodeReview(Ver1000), SkillA, SkillAB}
    \cup InvalidSkills

\* the names and versions asked of the registry; "" stands for version=None
\* as well (get tests `if version:`, which treats the two alike)
NamePool == {NameCr, NameTg, NameA, NameAB, <<120>>}
VersionPool == {Empty, Ver100, Ver900, Ver1000, Ver1, VerB1}

----------------------------------------------------------------------------
(* skill_schema.py: SkillRegistry *)

\* f"{name}@{version}"
SkillId(name, version) == name \o <<64>> \o version

\* position of the key in the dict, 0 when absent
KeyIndex(reg, key) ==
    IF \E i \in 1..Len(reg) : reg[i].key = key
    THEN CHOOSE i \in 1..Len(reg) : reg[i].key = key
    ELSE 0

\* self.skills[skill_id] = skill: a present key keeps its place in the dict
DictSet(reg, key, skill) ==
    IF KeyIndex(reg, key) # 0
    THEN [reg EXCEPT ![KeyIndex(reg, key)] = [key |-> key, skill |-> skill]]
    ELSE Append(reg, [key |-> key, skill |-> skill])

\* faulty variant of register: stores the skill before it validates it
RegisterStoresFirst(reg, skill) ==
    [raised |-> Validate(skill) # <<>>, errors |-> Validate(skill),
     skills |-> DictSet(reg, SkillId(skill.metadata.name, skill.metadata.version), skill)]

\* SkillRegistry.register: the registry afterwards and whether ValueError was raised
RegisterResult(reg, skill) ==
    IF Validate(skill) # <<>>
    THEN [raised |-> TRUE, errors |-> Validate(skill), skills |-> reg]
    ELSE [raised |-> FALSE, errors |-> <<>>,
          skills |-> DictSet(reg, SkillId(skill.metadata.name, skill.metadata.version), skill)]

\* faulty variant of the choice among versions: the skill registered last
MaxByVersionLast(best, rest) ==
    IF rest = <<>> THEN best ELSE rest[Len(rest)]

\* max(matching_skills, key=version): the first skill carrying the greatest version
RECURSIVE MaxByVersion(_, _)
MaxByVersion(best, rest) ==
    IF rest = <<>> THEN best
    ELSE IF StrLess(best.metadata.version, Head(rest).metadata.version)
         THEN MaxByVersion(Head(rest), Tail(rest))
         ELSE MaxByVersion(best, Tail(rest))

\* the skills of the dict, in order, whose name is the one asked for
MatchingSkills(reg, name) ==
    LET RECURSIVE M(_)
        M(r) == IF r = <<>> THEN <<>>
                ELSE (IF Head(r).skill.metadata.name = name
                      THEN <<Head(r).skill>> ELSE <<>>) \o M(Tail(r))
    IN M(reg)

\* faulty variant of get: the version asked for is ignored
RegistryGetLatestOnly(reg, name, version) ==
    IF MatchingSkills(reg, name) # <<>>
    THEN <<MaxByVersion(Head(MatchingSkills(reg, name)),
                        Tail(MatchingSkills(reg, name)))>>
    ELSE <<>>

\* SkillRegistry.get: <<skill>> or <<>> for None
RegistryGet(reg, name, version) ==
    IF Truthy(version)
    THEN IF KeyIndex(reg, SkillId(name, version)) # 0
         THEN <<reg[KeyIndex(reg, SkillId(name, version))].skill>>
         ELSE <<>>
    ELSE IF MatchingSkills(reg, name) # <<>>
         THEN <<MaxByVersion(Head(MatchingSkills(reg, name)),
                             Tail(MatchingSkills(reg, name)))>>
         ELSE <<>>

\* SkillRegistry.list_all
ListAll(reg) == [i \in 1..Len(reg) |-> reg[i].skill]

\* the registry of create_skill_registry_with_examples
ExampleRegistry ==
    RegisterResult(RegisterResult(RegisterResult(<<>>, CodeReview(Ver100)).skills,
                                  TestGenerator).skills,
                   Refactor).skills


----------------------------------------------------------------------------
(* skill_schema.py: TriggerRule.matches and Skill.can_trigger *)

\* faulty variant of matches: the keyword test without lower()
MatchesCaseSensitive(rule, input_text, context) ==
    CASE rule.condition_type = "keyword" ->
            Contains(input_text, rule.pattern)
      [] rule.condition_type = "explicit" ->
            rule.pattern = input_text
      [] rule.condition_type = "context" ->
            IF context = <<>> THEN FALSE
            ELSE \A req \in rule.context_requirements :
                    DictGet(context[1], req[1]) = req[2]
      [] OTHER -> FALSE

\* faulty variant of matches: an automatic rule matches everything
MatchesAutoAlways(rule, input_text, context) ==
    CASE rule.condition_type = "keyword" ->
            Contains(Lower(input_text), Lower(rule.pattern))
      [] rule.condition_type = "explicit" ->
            rule.pattern = input_text
      [] rule.condition_type = "context" ->
            IF context = <<>> THEN FALSE
            ELSE \A req \in rule.context_requirements :
                    DictGet(context[1], req[1]) = req[2]
      [] OTHER -> TRUE

\* TriggerRule.matches; context is <<>> for None and <<dict>> otherwise
Matches(rule, input_text, context) ==
    CASE rule.condition_type = "keyword" ->
            Contains(Lower(input_text), Lower(rule.pattern))
      [] rule.condition_type = "explicit" ->
            rule.pattern = input_text
      [] rule.condition_type = "context" ->
            IF context = <<>> THEN FALSE
            ELSE \A req \in rule.context_requirements :
                    DictGet(context[1], req[1]) = req[2]
      [] OTHER -> FALSE

\* any(trigger.matches(...) for trigger in triggers): stops at the first match
RECURSIVE AnyMatches(_, _, _)
AnyMatches(triggers, input_text, context) ==
    IF triggers = <<>> THEN FALSE
    ELSE IF Matches(Head(triggers), input_text, context) THEN TRUE
    ELSE AnyMatches(Tail(triggers), input_text, context)

\* Skill.can_trigger
CanTrigger(skill, input_text, context) ==
    AnyMatches(skill.triggers, input_text, context)

\* SkillRegistry.find_by_trigger: the skills that can trigger, in the order
\* of the dict
RECURSIVE FindByTrigger(_, _, _)
FindByTrigger(reg, input_text, context) ==
    IF reg = <<>> THEN <<>>
    ELSE (IF CanTrigger(Head(reg).skill, input_text, context)
          THEN <<Head(reg).skill>> ELSE <<>>)
         \o FindByTrigger(Tail(reg), input_text, context)

----------------------------------------------------------------------------
(* skill_schema.py: Skill.execute *)

\* the parameter names supplied in a call, params being a set of <<name, value>>
Provided(params) == {kv[1] : kv \in params}

\* the validator failures, one per declared parameter that is supplied and rejected
RECURSIVE ValidationFailures(_, _)
ValidationFailures(parameters, params) ==
    IF parameters = <<>> THEN <<>>
    ELSE (IF /\ Head(parameters).name \in Provided(params)
             /\ Head(parameters).validation # "None"
             /\ ~Accepts(Head(parameters).validation,
                         DictGet(params, Head(parameters).name))
          THEN <<[kind |-> "validation", names |-> {Head(parameters).name}]>>
          ELSE <<>>)
         \o ValidationFailures(Tail(parameters), params)

\* faulty variant of _validate_parameters: stops at the first problem found
ValidateParametersFirstOnly(skill, params) ==
    LET required_param_names ==
            {skill.parameters[i].name :
                i \in {j \in 1..Len(skill.parameters) : skill.parameters[j].required}}
        missing_params == required_param_names \ Provided(params)
        all == (IF missing_params # {}
                THEN <<[kind |-> "missing", names |-> missing_params]>>
                ELSE <<>>)
               \o ValidationFailures(skill.parameters, params)
    IN IF all = <<>> THEN <<>> ELSE <<Head(all)>>

\* Skill._validate_parameters
ValidateParameters(skill, params) ==
    LET required_param_names ==
            {skill.parameters[i].name :
                i \in {j \in 1..Len(skill.parameters) : skill.parameters[j].required}}
        missing_params == required_param_names \ Provided(params)
    IN (IF missing_params # {}
        THEN <<[kind |-> "missing", names |-> missing_params]>>
        ELSE <<>>)
       \o ValidationFailures(skill.parameters, params)

\* faulty variant of execute: nothing is raised, a call that is rejected or
\* whose body raises returns None
ExecuteNeverRaises(skill, params, body) ==
    IF ValidateParameters(skill, params) # <<>>
    THEN [raised |-> FALSE, exc |-> "None", errors |-> <<>>,
          body_invoked |-> FALSE, output |-> None]
    ELSE IF skill.implementation # "None"
    THEN [raised |-> FALSE, exc |-> "None", errors |-> <<>>, body_invoked |-> TRUE,
          output |-> IF body.raises THEN None ELSE body.output]
    ELSE [raised |-> FALSE, exc |-> "None", errors |-> <<>>,
          body_invoked |-> FALSE, output |-> None]

\* Skill.execute. body is what the implementation does if it is called with
\* these arguments: [raises, output]. The result tells whether the call raised,
\* which exception, the parameter errors it carries, and whether the body ran.
Execute(skill, params, body) ==
    IF ValidateParameters(skill, params) # <<>>
    THEN [raised |-> TRUE, exc |-> "ValueError",
          errors |-> ValidateParameters(skill, params),
          body_invoked |-> FALSE, output |-> None]
    ELSE IF skill.implementation # "None"
    THEN [raised |-> body.raises,
          exc |-> IF body.raises THEN "Exception" ELSE "None",
          errors |-> <<>>, body_invoked |-> TRUE,
          output |-> IF body.raises THEN None ELSE body.output]
    ELSE [raised |-> TRUE, exc |-> "NotImplementedError",
          errors |-> <<>>, body_invoked |-> FALSE, output |-> None]

\* what a skill body may do when called
BodyOutcomes ==
    {[raises |-> FALSE, output |-> PyDict("review")],
     [raises |-> FALSE, output |-> None],
     [raises |-> FALSE, output |-> PyArray],
     [raises |-> TRUE, output |-> None]}

----------------------------------------------------------------------------
(* unit_test_framework.py: TestResult; integration_test_framework.py *)

TestResult(name, status, message, duration) ==
    [test_name |-> name, status |-> status, message |-> message,
     duration_ms |-> duration]

IntegrationTestCase(name, skill_name, skill_version, input_params, expected_output, expected_output_type, should_succeed) ==
    [name |-> name, skill_name |-> skill_name, skill_version |-> skill_version,
     input_params |-> input_params, expected_output |-> expected_output,
     expected_output_type |-> expected_output_type,
     should_succeed |-> should_succeed]

SkillInvocation(skill, parameters, output, success, duration) ==
    [skill_name |-> skill.metadata.name, skill_version |-> skill.metadata.version,
     parameters |-> parameters, output |-> output, success |-> success,
     duration_ms |-> duration]

\* numbers as returned or expected: repr is the text Python shows
PyFloat(x) == [type |-> "float", repr |-> x]
PyBool(x) == [type |-> "bool", repr |-> x]

IsNumber(v) == v.type \in {"int", "float", "bool"}

\* the number a numeric value denotes (True is 1, False is 0, 1.0 is 1)
NumberValue(v) ==
    CASE v.repr \in {"0", "0.0", "False"} -> 0
      [] v.repr \in {"1", "1.0", "True"} -> 1
      [] v.repr \in {"2", "2.0"} -> 2
      [] OTHER -> -1

\* actual == expected as Python decides it for the values used here: int,
\* float and bool compare by the number they denote, every other value by
\* type and content
PyEquals(actual, expected) ==
    IF IsNumber(actual) /\ IsNumber(expected)
    THEN NumberValue(actual) = NumberValue(expected)
    ELSE actual.type = expected.type /\ actual.repr = expected.repr

\* faulty variant of _validate_output: a matching type tag is enough, the
\* value is compared only when no tag is declared
ValidateOutputTypeSuffices(actual, expected, expected_type) ==
    IF expected_type # "" /\ actual.type # expected_type
    THEN [valid |-> FALSE, reason |-> "Type mismatch", raised |-> FALSE]
    ELSE IF expected_type = "" /\ expected # None
    THEN IF actual = PyArray \/ expected = PyArray
         THEN [valid |-> FALSE, reason |-> "", raised |-> TRUE]
         ELSE IF PyEquals(actual, expected)
         THEN [valid |-> TRUE, reason |-> "Output matches expected value",
               raised |-> FALSE]
         ELSE [valid |-> FALSE, reason |-> "Value mismatch", raised |-> FALSE]
    ELSE [valid |-> TRUE, reason |-> "No expected value specified",
          raised |-> FALSE]

\* SkillIntegrationTester._validate_output; expected_type "" stands for None
\* and for the empty tag, which `if expected_type:` treats alike
\* raised: the test `if actual == expected` raised
ValidateOutput(actual, expected, expected_type) ==
    IF expected_type # "" /\ actual.type # expected_type
    THEN [valid |-> FALSE, reason |-> "Type mismatch", raised |-> FALSE]
    ELSE IF expected # None
    THEN IF actual = PyArray \/ expected = PyArray
         THEN [valid |-> FALSE, reason |-> "", raised |-> TRUE]
         ELSE IF PyEquals(actual, expected)
         THEN [valid |-> TRUE, reason |-> "Output matches expected value",
               raised |-> FALSE]
         ELSE [valid |-> FALSE, reason |-> "Value mismatch", raised |-> FALSE]
    ELSE [valid |-> TRUE, reason |-> "No expected value specified",
          raised |-> FALSE]

\* faulty variant of run_test_case: an expected failure that happens is Failed
IntRunTestCaseStrict(reg, test_case, body, duration) ==
    LET found == RegistryGet(reg, test_case.skill_name, test_case.skill_version)
    IN IF found = <<>>
       THEN [result |-> TestResult(test_case.name, "error", "Skill not found", duration),
             appended |-> <<>>, body_invoked |-> FALSE]
       ELSE LET res == Execute(found[1], test_case.input_params, body)
            IN [result |-> TestResult(test_case.name,
                              IF ~res.raised /\ test_case.should_succeed
                                 /\ ValidateOutput(res.output, test_case.expected_output,
                                        test_case.expected_output_type).valid
                              THEN "passed" ELSE "failed", "", duration),
                appended |-> <<SkillInvocation(found[1], test_case.input_params,
                                               res.output, ~res.raised, duration)>>,
                body_invoked |-> res.body_invoked]

\* SkillIntegrationTester.run_test_case: the TestResult returned, the invocation
\* records appended to self.invocations, and whether a skill body ran.
\* body is what the implementation does if called, duration the time measured.
IntRunTestCase(reg, test_case, body, duration) ==
    LET found == RegistryGet(reg, test_case.skill_name, test_case.skill_version)
    IN IF found = <<>>
       THEN [result |-> TestResult(test_case.name, "error", "Skill not found", duration),
             appended |-> <<>>, body_invoked |-> FALSE]
       ELSE LET skill == found[1]
                res == Execute(skill, test_case.input_params, body)
                validation == ValidateOutput(res.output, test_case.expected_output,
                                             test_case.expected_output_type)
            IN IF ~res.raised /\ test_case.should_succeed /\ validation.raised
               \* the exception of _validate_output is caught by the handler
               \* meant for execute, after the first record was appended
               THEN [result |-> TestResult(test_case.name, "failed",
                                           "Skill execution failed", duration),
                     appended |-> <<SkillInvocation(skill, test_case.input_params,
                                                    res.output, TRUE, duration),
                                    SkillInvocation(skill, test_case.input_params,
                                                    None, FALSE, duration)>>,
                     body_invoked |-> res.body_invoked]
               ELSE IF ~res.raised
               THEN [result |->
                        IF test_case.should_succeed
                        THEN IF validation.valid
                             THEN TestResult(test_case.name, "passed",
                                             "Skill executed successfully", duration)
                             ELSE TestResult(test_case.name, "failed",
                                             "Output validation failed", duration)
                        ELSE TestResult(test_case.name, "failed",
                                        "Skill should have failed but succeeded", duration),
                     appended |-> <<SkillInvocation(skill, test_case.input_params,
                                                    res.output, TRUE, duration)>>,
                     body_invoked |-> res.body_invoked]
               ELSE [result |->
                        IF ~test_case.should_succeed
                        THEN TestResult(test_case.name, "passed",
                                        "Skill correctly failed", duration)
                        ELSE TestResult(test_case.name, "failed",
                                        "Skill execution failed", duration),
                     appended |-> <<SkillInvocation(skill, test_case.input_params,
                                                    None, FALSE, duration)>>,
                     body_invoked |-> res.body_invoked]

----------------------------------------------------------------------------
(* unit_test_framework.py: SkillUnitTester. Unit results carry the default  *)
(* duration_ms of 0.                                                        *)

\* faulty variant of a unit check: a check that does not hold is skipped
CheckSkipped(name, ok) ==
    TestResult(name, IF ok THEN "passed" ELSE "skipped", "", 0)

\* a result Passed when ok holds and Failed otherwise
Check(name, ok) ==
    TestResult(name, IF ok THEN "passed" ELSE "failed", "", 0)

\* str.split('.'): the parts between the dots
RECURSIVE SplitDots(_, _)
SplitDots(s, part) ==
    IF s = <<>> THEN <<part>>
    ELSE IF Head(s) = 46 THEN <<part>> \o SplitDots(Tail(s), <<>>)
    ELSE SplitDots(Tail(s), Append(part, Head(s)))

\* int(part) succeeds: an optional sign and then decimal digits (of the code
\* points used here; int() would also take blanks and underscores)
IsIntLiteral(part) ==
    LET digits == IF part # <<>> /\ Head(part) \in {43, 45} THEN Tail(part) ELSE part
    IN /\ digits # <<>>
       /\ \A i \in 1..Len(digits) : digits[i] >= 48 /\ digits[i] <= 57

\* SkillUnitTester._is_valid_semver
IsValidSemver(version) ==
    /\ Len(SplitDots(version, <<>>)) = 3
    /\ \A i \in 1..3 : IsIntLiteral(SplitDots(version, <<>>)[i])

\* SkillUnitTester._test_metadata
TestMetadata(skill) ==
    <<Check("test_metadata_name_exists", Truthy(skill.metadata.name)),
      Check("test_metadata_version_valid",
            Truthy(skill.metadata.version) /\ IsValidSemver(skill.metadata.version)),
      Check("test_metadata_description_adequate", Len(skill.metadata.description) >= 20),
      Check("test_metadata_author_exists", Truthy(skill.metadata.author))>>

\* max(priorities) - min(priorities)
PrioritySpread(triggers) ==
    LET priorities == {triggers[i].priority : i \in 1..Len(triggers)}
    IN (CHOOSE hi \in priorities : \A q \in priorities : q <= hi)
       - (CHOOSE lo \in priorities : \A q \in priorities : q >= lo)

\* SkillUnitTester._test_triggers
TestTriggers(skill) ==
    <<Check("test_triggers_exist", Truthy(skill.triggers))>>
    \o [i \in 1..Len(skill.triggers) |->
          Check("test_trigger_" \o ToString(i - 1) \o "_pattern_valid",
                Truthy(skill.triggers[i].pattern))]
    \o (IF Truthy(skill.triggers)
        THEN <<Check("test_triggers_priority_range",
                     PrioritySpread(skill.triggers) <= 100)>>
        ELSE <<>>)

\* SkillUnitTester._test_parameters
TestParameters(skill) ==
    LET params == skill.parameters
        IsRequired(param) == param.required
        required == SelectSeq(params, IsRequired)
    IN <<Check("test_parameters_unique_names",
               Len(params) = Cardinality({params[i].name : i \in 1..Len(params)}))>>
       \o [i \in 1..Len(required) |->
              Check("test_parameter_" \o required[i].name \o "_no_default",
                    required[i].default = None)]
       \o [i \in 1..Len(params) |->
              Check("test_parameter_" \o params[i].name \o "_has_type",
                    params[i].type # "")]
       \o [i \in 1..Len(params) |->
              Check("test_parameter_" \o params[i].name \o "_has_description",
                    Len(params[i].description) >= 10)]

\* SkillUnitTester._test_skill_validity
TestSkillValidity(skill) ==
    <<Check("test_skill_validate", Validate(skill) = <<>>),
      Check("test_skill_has_implementation",
            skill.implementation # "None" \/ Truthy(skill.prompt_template)),
      Check("test_skill_has_examples", Truthy(skill.examples)),
      Check("test_skill_has_red_flags", Truthy(skill.red_flags))>>

\* SkillUnitTester.run_all_tests
UnitRunAllTests(skill) ==
    TestMetadata(skill) \o TestTriggers(skill) \o TestParameters(skill)
        \o TestSkillValidity(skill)

----------------------------------------------------------------------------
(* Python float, as far as the regression detector uses it.                *)
(* A pass rate is kept as the number of hundredths its text shows          *)
(* ("96.00%" is 9600, "0%" is 0). float() gives the IEEE-754 double        *)
(* nearest to that decimal: a non-negative double is kept as               *)
(* [int, frac], its integer part and the bits of its binary fraction.      *)

\* significand bits of a double
MantissaBits == 53

\* number of bits of a positive integer, 0 for 0
RECURSIVE BitLen(_)
BitLen(i) == IF i = 0 THEN 0 ELSE 1 + BitLen(i \div 2)

\* the first k bits of the binary expansion of r/100, 0 <= r < 100
RECURSIVE FracBits(_, _)
FracBits(r, k) ==
    IF k = 0 THEN <<>>
    ELSE <<(2 * r) \div 100>> \o FracBits((2 * r) % 100, k - 1)

\* what is left of r/100 after k bits, as a count of 2^-k hundredths
RECURSIVE FracRem(_, _)
FracRem(r, k) == IF k = 0 THEN r ELSE FracRem((2 * r) % 100, k - 1)

\* zero bits before the first one bit of r/100, 0 < r < 100
RECURSIVE LeadingZeros(_)
LeadingZeros(r) == IF 2 * r >= 100 THEN 0 ELSE 1 + LeadingZeros(2 * r)

\* bits + 1 in the last place: the new bits and the carry out of the first
RECURSIVE IncBits(_)
IncBits(bits) ==
    IF bits = <<>> THEN [bits |-> <<>>, carry |-> 1]
    ELSE IF bits[Len(bits)] = 0
         THEN [bits |-> [bits EXCEPT ![Len(bits)] = 1], carry |-> 0]
         ELSE LET up == IncBits(SubSeq(bits, 1, Len(bits) - 1))
              IN [bits |-> Append(up.bits, 0), carry |-> up.carry]

\* the double one unit in the last kept place above [int, kept]
RoundUp(int, kept) ==
    [int |-> int + IncBits(kept).carry, frac |-> IncBits(kept).bits]

\* float("d.dd"): the double nearest to n/100 (round to nearest, ties to even)
FloatOf(n) ==
    LET int == n \div 100
        r == n % 100
    IN IF r = 0 THEN [int |-> int, frac |-> <<>>]
       ELSE LET p == IF int > 0 THEN MantissaBits - BitLen(int)
                     ELSE LeadingZeros(r) + MantissaBits
                kept == FracBits(r, p)
                rem == FracRem(r, p)
            IN IF 2 * rem > 100 \/ (2 * rem = 100 /\ kept[p] = 1)
               THEN RoundUp(int, kept)
               ELSE [int |-> int, frac |-> kept]

\* some bit of the sequence from position i on is 1
AnyBitFrom(bits, i) == \E j \in i..Len(bits) : bits[j] = 1

\* the double nearest to int + 0.frac, int >= 1: the result of an addition
RoundToDouble(int, frac) ==
    LET p == MantissaBits - BitLen(int)
    IN IF Len(frac) <= p THEN [int |-> int, frac |-> frac]
       ELSE LET kept == SubSeq(frac, 1, p)
                up == /\ frac[p + 1] = 1
                      /\ \/ AnyBitFrom(frac, p + 2)
                         \/ (p > 0 /\ kept[p] = 1)
                         \/ (p = 0 /\ int % 2 = 1)
            IN IF up THEN RoundUp(int, kept) ELSE [int |-> int, frac |-> kept]

\* a < b for two bit sequences read as binary fractions
RECURSIVE BitsLess(_, _)
BitsLess(a, b) ==
    IF b = <<>> THEN FALSE
    ELSE IF a = <<>> THEN AnyBitFrom(b, 1)
    ELSE IF Head(a) # Head(b) THEN Head(a) < Head(b)
    ELSE BitsLess(Tail(a), Tail(b))

\* x < y for two non-negative doubles
FloatLess(x, y) ==
    \/ x.int < y.int
    \/ x.int = y.int /\ BitsLess(x.frac, y.frac)

\* current_pass_rate < baseline_pass_rate - 5. The subtraction is exact (the
\* difference needs no more bits than the baseline has); below 5 it is negative.
LessThanMinus5(current, base) ==
    /\ base.int >= 5
    /\ FloatLess(current, [int |-> base.int - 5, frac |-> base.frac])

\* current_pass_rate > baseline_pass_rate + 2, the sum rounded to a double
GreaterThanPlus2(current, base) ==
    FloatLess(RoundToDouble(base.int + 2, base.frac), current)

----------------------------------------------------------------------------
(* e2e_test_framework.py: E2ETestRunner.                                    *)
(* What the surroundings do during one run is given as env:                 *)
(*   provision_ok     _setup_environment returns (else it raises)           *)
(*   setup_raises     the setup hook raises                                 *)
(*   steps            per workflow step: what the skill body does if called *)
(*                    and what the step's validation_func does              *)
(*                    ("true", "false", "raises")                           *)
(*   missing_files    the expected files that do not exist                  *)
(*   git              [raises, count] of `git rev-list --count HEAD`        *)
(*   commands         per validation command: "ok", "nonzero", "timeout",   *)
(*                    "error"                                               *)
(*   teardown_raises  the teardown hook raises                              *)
(* Each run yields, besides its TestResult, the sequence of things done     *)
(* (events), in the order the code does them.                               *)

WorkflowStep(name, skill_name, input_params, has_validation) ==
    [name |-> name, skill_name |-> skill_name, input_params |-> input_params,
     has_validation |-> has_validation]

E2ETestCase(name, workflow, has_setup, has_teardown, expected_files, expected_git_commits, validation_commands) ==
    [name |-> name, workflow |-> workflow, setup_func |-> has_setup,
     teardown_func |-> has_teardown, expected_files |-> expected_files,
     expected_git_commits |-> expected_git_commits,
     validation_commands |-> validation_commands]

WorkflowExecution(test_name) ==
    [test_name |-> test_name, steps_completed |-> <<>>, steps_failed |-> <<>>,
     outputs |-> {}, success |-> FALSE, error |-> ""]

Event(kind, name, detail) == [kind |-> kind, name |-> name, detail |-> detail]

\* the temporary directory handed to hooks and skills
TempDir == Str("/tmp/e2e")

\* params = step.input_params.copy(); params["_project_dir"] = project_dir
WithProjectDir(input_params) ==
    {kv \in input_params : kv[1] # "_project_dir"} \cup {<<"_project_dir", TempDir>>}

\* execution.outputs[name] = output
SetOutput(outputs, name, output) ==
    {kv \in outputs : kv[1] # name} \cup {<<name, output>>}

\* E2ETestRunner._execute_workflow from step i on
RECURSIVE ExecuteWorkflow(_, _, _, _, _, _)
ExecuteWorkflow(reg, workflow, oracles, i, execution, events) ==
    IF i > Len(workflow)
    THEN [success |-> TRUE, error |-> "", execution |-> execution, events |-> events]
    ELSE
    LET step == workflow[i]
        found == RegistryGet(reg, step.skill_name, Empty)
    IN IF found = <<>>
       THEN [success |-> FALSE, error |-> "Skill not found",
             execution |-> execution,
             events |-> Append(events, Event("lookup", step.name, "missing"))]
       ELSE
       LET res == Execute(found[1], WithProjectDir(step.input_params), oracles[i].body)
           called == Append(events,
                        Event("execute", step.name,
                              IF res.body_invoked THEN "body" ELSE "rejected"))
       IN IF res.raised
          THEN [success |-> FALSE, error |-> "Step failed",
                execution |-> [execution EXCEPT
                                  !.steps_failed = Append(@, step.name)],
                events |-> called]
          ELSE
          LET done == [execution EXCEPT
                          !.steps_completed = Append(@, step.name),
                          !.outputs = SetOutput(@, step.name, res.output)]
              checked == Append(called,
                            Event("step_validation", step.name, oracles[i].valid))
          IN IF ~step.has_validation
             THEN ExecuteWorkflow(reg, workflow, oracles, i + 1, done, called)
             ELSE IF oracles[i].valid = "true"
             THEN ExecuteWorkflow(reg, workflow, oracles, i + 1, done, checked)
             ELSE [success |-> FALSE,
                   error |-> IF oracles[i].valid = "false"
                             THEN "Step validation failed" ELSE "Step failed",
                   execution |-> [done EXCEPT !.steps_failed = Append(@, step.name)],
                   events |-> checked]

\* the validation commands from command i on
RECURSIVE ValidateCommands(_, _, _, _, _)
ValidateCommands(commands, outcomes, i, validations, events) ==
    IF i > Len(commands)
    THEN [valid |-> TRUE, reason |-> "", validations |-> validations, events |-> events]
    ELSE LET ran == Append(events, Event("command", commands[i], outcomes[i]))
         IN IF outcomes[i] = "ok"
            THEN ValidateCommands(commands, outcomes, i + 1,
                                  Append(validations, <<"command", commands[i]>>), ran)
            ELSE [valid |-> FALSE,
                  reason |-> CASE outcomes[i] = "nonzero" -> "Validation command failed"
                               [] outcomes[i] = "timeout" -> "Validation command timeout"
                               [] OTHER -> "Validation command error",
                  validations |-> validations, events |-> ran]

\* faulty variant of the commit count check: the count must equal the one expected
ValidateCommitsExact(test_case, env, validations, events) ==
    IF test_case.expected_git_commits > 0
    THEN LET counted == Append(events, Event("check_commits", "",
                                   IF env.git.raises THEN "raises" ELSE "counted"))
         IN IF env.git.raises
            THEN [valid |-> FALSE, reason |-> "Failed to check git commits",
                  validations |-> validations, events |-> counted]
            ELSE IF env.git.count = test_case.expected_git_commits
            THEN ValidateCommands(test_case.validation_commands, env.commands, 1,
                                  Append(validations, <<"git_commits", "">>), counted)
            ELSE [valid |-> FALSE, reason |-> "Expected more commits",
                  validations |-> validations, events |-> counted]
    ELSE ValidateCommands(test_case.validation_commands, env.commands, 1,
                          validations, events)

\* faulty variant of the commit count check: the commits are counted also
\* when none is expected
ValidateCommitsAlways(test_case, env, validations, events) ==
    LET counted == Append(events, Event("check_commits", "",
                              IF env.git.raises THEN "raises" ELSE "counted"))
    IN IF env.git.raises
       THEN [valid |-> FALSE, reason |-> "Failed to check git commits",
             validations |-> validations, events |-> counted]
       ELSE IF env.git.count >= test_case.expected_git_commits
       THEN ValidateCommands(test_case.validation_commands, env.commands, 1,
                             Append(validations, <<"git_commits", "">>), counted)
       ELSE [valid |-> FALSE, reason |-> "Expected more commits",
             validations |-> validations, events |-> counted]

\* the commit count check and what follows it
ValidateCommits(test_case, env, validations, events) ==
    IF test_case.expected_git_commits > 0
    THEN LET counted == Append(events, Event("check_commits", "",
                                   IF env.git.raises THEN "raises" ELSE "counted"))
         IN IF env.git.raises
            THEN [valid |-> FALSE, reason |-> "Failed to check git commits",
                  validations |-> validations, events |-> counted]
            ELSE IF env.git.count >= test_case.expected_git_commits
            THEN ValidateCommands(test_case.validation_commands, env.commands, 1,
                                  Append(validations, <<"git_commits", "">>), counted)
            ELSE [valid |-> FALSE, reason |-> "Expected more commits",
                  validations |-> validations, events |-> counted]
    ELSE ValidateCommands(test_case.validation_commands, env.commands, 1,
                          validations, events)

\* the expected files from file i on, and what follows them
RECURSIVE ValidateFiles(_, _, _, _, _)
ValidateFiles(test_case, env, i, validations, events) ==
    IF i > Len(test_case.expected_files)
    THEN ValidateCommits(test_case, env, validations, events)
    ELSE LET file == test_case.expected_files[i]
             looked == Append(events, Event("check_file", file,
                                  IF file \in env.missing_files THEN "missing" ELSE "exists"))
         IN IF file \notin env.missing_files
            THEN ValidateFiles(test_case, env, i + 1,
                               Append(validations, <<"file_exists", file>>), looked)
            ELSE [valid |-> FALSE, reason |-> "Expected file not found",
                  validations |-> validations, events |-> looked]

\* faulty variant of _validate_outcome: the checks are made ahead of the
\* phases that the run has been through
ValidateOutcomeAhead(test_case, env, events) ==
    LET vo == ValidateFiles(test_case, env, 1, <<>>, <<>>)
    IN [vo EXCEPT !.events = vo.events \o events]

\* E2ETestRunner._validate_outcome
ValidateOutcome(test_case, env, events) ==
    ValidateFiles(test_case, env, 1, <<>>, events)

\* faulty variant of the finally clause: the teardown hook is skipped when the
\* run ended in the except clause
FinallyUnlessError(test_case, temp_dir_set, status, env, events) ==
    IF test_case.teardown_func /\ temp_dir_set /\ status # "error"
    THEN Append(events, Event("teardown", "",
                              IF env.teardown_raises THEN "raises" ELSE "returns"))
    ELSE events

\* the finally clause of run_test_case: the teardown hook runs when one is
\* declared and temp_dir was assigned; what it raises is swallowed
Finally(test_case, temp_dir_set, status, env, events) ==
    IF test_case.teardown_func /\ temp_dir_set
    THEN Append(events, Event("teardown", "",
                              IF env.teardown_raises THEN "raises" ELSE "returns"))
    ELSE events

\* faulty variant of _setup_environment: it never raises
SetupEnvironmentNeverRaises(env) == FALSE

\* E2ETestRunner._setup_environment: whether mkdtemp, the template copy or a
\* git command (check=True) raises; otherwise temp_dir is returned
SetupEnvironmentRaises(env) == ~env.provision_ok

\* E2ETestRunner.run_test_case: the TestResult, the execution record, the
\* records appended to self.executions, the validations made and the events
E2ERunTestCase(reg, test_case, env, duration) ==
    LET execution == WorkflowExecution(test_case.name)
        Done(status, message, exec, appended, validations, temp_dir_set, events) ==
            [result |-> TestResult(test_case.name, status, message, duration),
             execution |-> exec, appended |-> appended, validations |-> validations,
             events |-> Append(Finally(test_case, temp_dir_set, status, env, events),
                               Event("result", "", status))]
        provisioned == <<Event("provision", "", "returns")>>
        prepared ==
            IF test_case.setup_func
            THEN Append(provisioned,
                        Event("setup_hook", "",
                              IF env.setup_raises THEN "raises" ELSE "returns"))
            ELSE provisioned
    IN IF SetupEnvironmentRaises(env)
       THEN Done("error", "E2E test error",
                 [execution EXCEPT !.error = "environment"],
                 <<[execution EXCEPT !.error = "environment"]>>, <<>>, FALSE,
                 <<Event("provision", "", "raises")>>)
       ELSE IF test_case.setup_func /\ env.setup_raises
       THEN Done("error", "E2E test error",
                 [execution EXCEPT !.error = "setup"],
                 <<[execution EXCEPT !.error = "setup"]>>, <<>>, TRUE, prepared)
       ELSE
       LET wf == ExecuteWorkflow(reg, test_case.workflow, env.steps, 1,
                                 execution, prepared)
       IN IF ~wf.success
          THEN Done("failed", "Workflow failed", wf.execution, <<>>, <<>>, TRUE,
                    wf.events)
          ELSE
          LET vo == ValidateOutcome(test_case, env, wf.events)
          IN IF vo.valid
             THEN Done("passed", "E2E test passed",
                       [wf.execution EXCEPT !.success = TRUE],
                       <<[wf.execution EXCEPT !.success = TRUE]>>,
                       vo.validations, TRUE, vo.events)
             ELSE Done("failed", "Validation failed",
                       [wf.execution EXCEPT !.error = vo.reason],
                       <<[wf.execution EXCEPT !.error = vo.reason]>>,
                       vo.validations, TRUE, vo.events)

----------------------------------------------------------------------------
(* e2e_test_framework.py: RegressionDetector.                               *)
(* A metrics snapshot keeps pass_rate as the hundredths its text shows and  *)
(* avg_duration_ms as the quotient [num, den] it was computed from, so that *)
(* comparisons of means are decided exactly.                                *)

Snapshot(total, passed, failed, errors, pass_rate, total_duration, avg) ==
    [total_tests |-> total, passed |-> passed, failed |-> failed,
     errors |-> errors, pass_rate |-> pass_rate,
     total_duration_ms |-> total_duration, avg_duration_ms |-> avg]

\* RegressionDetector.save_baseline: the file afterwards
SaveBaseline(metrics) == <<metrics>>

\* faulty variant of load_baseline: a missing file reads as an all-zero snapshot
LoadBaselineZeroDefault(file) ==
    IF file = <<>> THEN <<Snapshot(0, 0, 0, 0, 0, 0, [num |-> 0, den |-> 1])>>
    ELSE file

\* RegressionDetector.load_baseline: <<>> for None when the file does not exist
LoadBaseline(file) == file

\* current mean > baseline mean * 1.5, decided on the quotients; for the means
\* of the ledgers drawn below the doubles decide the same
DurationRegressed(base, current) ==
    2 * current.avg_duration_ms.num * base.avg_duration_ms.den
        > 3 * base.avg_duration_ms.num * current.avg_duration_ms.den

\* RegressionDetector._detect_improvements
DetectImprovements(base, current) ==
    IF GreaterThanPlus2(FloatOf(current.pass_rate), FloatOf(base.pass_rate))
    THEN <<[metric |-> "pass_rate", change |-> current.pass_rate - base.pass_rate]>>
    ELSE <<>>

\* RegressionDetector.detect_regression: the dict returned, or the exception
\* raised. An entry keeps its metric; a pass_rate entry also keeps its change,
\* the difference of the two rates in hundredths (the text "-12.00%" is
\* -1200). Building the avg_duration_ms entry divides the current mean by the
\* baseline mean.
DetectRegression(file, current) ==
    LET loaded == LoadBaseline(file)
    IN IF loaded = <<>>
       THEN [raised |-> FALSE, has_regression |-> FALSE, action |-> "save_baseline",
             regressions |-> <<>>, improvements |-> <<>>]
       ELSE
       LET base == loaded[1]
           pass_entry ==
               IF LessThanMinus5(FloatOf(current.pass_rate), FloatOf(base.pass_rate))
               THEN <<[metric |-> "pass_rate",
                       change |-> current.pass_rate - base.pass_rate]>>
               ELSE <<>>
           duration_entry ==
               IF DurationRegressed(base, current)
               THEN <<[metric |-> "avg_duration_ms"]>>
               ELSE <<>>
       IN IF DurationRegressed(base, current) /\ base.avg_duration_ms.num = 0
          THEN [raised |-> TRUE, has_regression |-> FALSE, action |-> "ZeroDivisionError",
                regressions |-> <<>>, improvements |-> <<>>]
          ELSE IF pass_entry \o duration_entry # <<>>
          THEN [raised |-> FALSE, has_regression |-> TRUE, action |-> "",
                regressions |-> pass_entry \o duration_entry, improvements |-> <<>>]
          ELSE [raised |-> FALSE, has_regression |-> FALSE, action |-> "",
                regressions |-> <<>>,
                improvements |-> DetectImprovements(base, current)]

----------------------------------------------------------------------------
(* test_runner.py: UnifiedTestRunner *)

\* sum(1 for r in results if r.status == status)
CountStatus(results, status) ==
    Cardinality({i \in 1..Len(results) : results[i].status = status})

\* sum(r.duration_ms for r in results)
RECURSIVE SumDurations(_)
SumDurations(results) ==
    IF results = <<>> THEN 0
    ELSE Head(results).duration_ms + SumDurations(Tail(results))

\* faulty variant of the rate: the digits after the second decimal are cut off
PassRateTruncated(passed, total) == (10000 * passed) \div total

\* f"{(passed / total * 100):.2f}%" in hundredths: the nearest hundredth, a
\* rate halfway between two going to the even one. A rate is halfway only for
\* a total that is a multiple of 32, and below 160 results such a rate is a
\* double without error.
PassRate(passed, total) ==
    LET q == (10000 * passed) \div total
        r == (10000 * passed) % total
    IN IF 2 * r > total \/ (2 * r = total /\ q % 2 = 1) THEN q + 1 ELSE q

\* UnifiedTestRunner._compute_overall_metrics
ComputeOverallMetrics(results) ==
    LET total_tests == Len(results)
        passed == CountStatus(results, "passed")
        total_duration == SumDurations(results)
    IN Snapshot(total_tests, passed,
                CountStatus(results, "failed"), CountStatus(results, "error"),
                IF total_tests > 0 THEN PassRate(passed, total_tests) ELSE 0,
                total_duration,
                IF total_tests > 0 THEN [num |-> total_duration, den |-> total_tests]
                ELSE [num |-> 0, den |-> 1])

\* SkillUnitTester.get_summary
UnitGetSummary(results) ==
    LET total == Len(results)
        passed == CountStatus(results, "passed")
        failed == CountStatus(results, "failed")
        errors == CountStatus(results, "error")
    IN [total |-> total, passed |-> passed, failed |-> failed, errors |-> errors,
        pass_rate |-> IF total > 0 THEN PassRate(passed, total) ELSE 0,
        all_passed |-> (failed = 0 /\ errors = 0)]

\* SkillIntegrationTester.get_summary
IntGetSummary(results, invs) ==
    LET total == Len(results)
        passed == CountStatus(results, "passed")
        total_duration == SumDurations(results)
    IN [total |-> total, passed |-> passed,
        failed |-> CountStatus(results, "failed"),
        errors |-> CountStatus(results, "error"),
        pass_rate |-> IF total > 0 THEN PassRate(passed, total) ELSE 0,
        total_duration_ms |-> total_duration,
        avg_duration_ms |-> IF total > 0 THEN [num |-> total_duration, den |-> total]
                            ELSE [num |-> 0, den |-> 1],
        total_invocations |-> Len(invs),
        successful_invocations |->
            Cardinality({i \in 1..Len(invs) : invs[i].success})]

\* E2ETestRunner.get_summary
E2EGetSummary(results, execs) ==
    LET total == Len(results)
        passed == CountStatus(results, "passed")
    IN [total |-> total, passed |-> passed,
        failed |-> CountStatus(results, "failed"),
        errors |-> CountStatus(results, "error"),
        pass_rate |-> IF total > 0 THEN PassRate(passed, total) ELSE 0,
        total_duration_ms |-> SumDurations(results),
        total_workflows |-> Len(execs),
        successful_workflows |->
            Cardinality({i \in 1..Len(execs) : execs[i].success})]

\* faulty variant of the verdict: errors are not looked at
OverallVerdictFailedOnly(results) ==
    ComputeOverallMetrics(results).failed = 0

\* the overall verdict: metrics["failed"] == 0 and metrics["errors"] == 0
OverallVerdict(results) ==
    /\ ComputeOverallMetrics(results).failed = 0
    /\ ComputeOverallMetrics(results).errors = 0

\* faulty variant of the unit phase: the last target skill is tested first
RECURSIVE UnitPhaseReversed(_)
UnitPhaseReversed(skills) ==
    IF skills = <<>> THEN <<>>
    ELSE UnitPhaseReversed(Tail(skills)) \o UnitRunAllTests(Head(skills))

\* the unit results of the skills, one skill after the other
RECURSIVE UnitPhase(_)
UnitPhase(skills) ==
    IF skills = <<>> THEN <<>>
    ELSE UnitRunAllTests(Head(skills)) \o UnitPhase(Tail(skills))

\* SkillIntegrationTester.run_test_suite on a fresh tester: the results
RECURSIVE IntRunTestSuite(_, _, _)
IntRunTestSuite(reg, test_cases, oracles) ==
    IF test_cases = <<>> THEN <<>>
    ELSE <<IntRunTestCase(reg, Head(test_cases), Head(oracles).body,
                          Head(oracles).duration).result>>
         \o IntRunTestSuite(reg, Tail(test_cases), Tail(oracles))

\* E2ETestRunner.run_test_suite on a fresh runner: the results
RECURSIVE E2ERunTestSuite(_, _, _)
E2ERunTestSuite(reg, test_cases, oracles) ==
    IF test_cases = <<>> THEN <<>>
    ELSE <<E2ERunTestCase(reg, Head(test_cases), Head(oracles).env,
                          Head(oracles).duration).result>>
         \o E2ERunTestSuite(reg, Tail(test_cases), Tail(oracles))

\* faulty variant of the choice of target skills: the names are ignored
ResolveSkillsAll(reg, names) == ListAll(reg)

\* [self.registry.get(name) for name in skills_to_test], None dropped
RECURSIVE ResolveSkills(_, _)
ResolveSkills(reg, names) ==
    IF names = <<>> THEN <<>>
    ELSE RegistryGet(reg, Head(names), Empty) \o ResolveSkills(reg, Tail(names))

\* faulty variant of the baseline step: every run's metrics become the baseline
BaselineAfterAlwaysSaved(file, regression, metrics) ==
    SaveBaseline(metrics)

\* the baseline file after the regression phase: written when the detector
\* answered action = "save_baseline"
BaselineAfter(file, regression, metrics) ==
    IF regression.action = "save_baseline" THEN SaveBaseline(metrics) ELSE file

\* the three test phases of run_all_tests: what self.all_results holds when
\* the regression phase is reached. call holds the arguments (skills_to_test
\* is <<>> for None and <<names>> otherwise) and what the skill bodies and the
\* surroundings do during the integration and E2E phases.
LedgerOfRun(reg, call) ==
    LET skills == IF call.skills_to_test = <<>> THEN ListAll(reg)
                  ELSE ResolveSkills(reg, call.skills_to_test[1])
        unit == IF call.run_unit THEN UnitPhase(skills) ELSE <<>>
        integration ==
            IF call.run_integration /\ Truthy(call.integration_tests)
            THEN IntRunTestSuite(reg, call.integration_tests, call.integration_oracles)
            ELSE <<>>
        e2e ==
            IF call.run_e2e /\ Truthy(call.e2e_tests)
            THEN E2ERunTestSuite(reg, call.e2e_tests, call.e2e_oracles)
            ELSE <<>>
    IN unit \o integration \o e2e

\* the regression phase of run_all_tests on that ledger, and what the run
\* leaves: the ledger, the regression result (<<>> when the phase is off), the
\* baseline file afterwards and whether the run raised
RegressionPhase(ledger, file, call) ==
    LET current_metrics == ComputeOverallMetrics(ledger)
        regression == DetectRegression(file, current_metrics)
    IN IF ~call.detect_regression
       THEN [all_results |-> ledger, regression |-> <<>>, file |-> file,
             raised |-> FALSE, metrics |-> current_metrics]
       ELSE IF regression.raised
       THEN [all_results |-> ledger, regression |-> <<>>, file |-> file,
             raised |-> TRUE, metrics |-> current_metrics]
       ELSE [all_results |-> ledger, regression |-> <<regression>>,
             file |-> BaselineAfter(file, regression, current_metrics),
             raised |-> FALSE, metrics |-> current_metrics]

\* UnifiedTestRunner.run_all_tests
RunAllTests(reg, file, call) ==
    RegressionPhase(LedgerOfRun(reg, call), file, call)

----------------------------------------------------------------------------
(* Registry operations as actions *)

\* registry.register(skill), the caller catching the ValueError
Register(skill) ==
    /\ Len(RegisterResult(registry, skill).skills) <= MaxRegistry
    /\ registry' = RegisterResult(registry, skill).skills
    /\ last' = [op |-> "register", skill |-> skill,
                raised |-> RegisterResult(registry, skill).raised,
                errors |-> RegisterResult(registry, skill).errors,
                before |-> registry]
    /\ UNCHANGED <<invocations, int_results, e2e_results, executions, all_results, baseline>>

\* registry.get(name, version); prev_skill is the skill stored by the call just before
Get(name, version) ==
    /\ last' = [op |-> "get", name |-> name, version |-> version,
                result |-> RegistryGet(registry, name, version),
                prev_skill |-> IF last.op = "register" /\ ~last.raised
                               THEN <<last.skill>> ELSE <<>>]
    /\ UNCHANGED <<registry, invocations, int_results, e2e_results, executions, all_results, baseline>>

InitEmpty ==
    /\ registry = <<>>
    /\ invocations = <<>>
    /\ int_results = <<>>
    /\ e2e_results = <<>>
    /\ executions = <<>>
    /\ all_results = <<>>
    /\ baseline = <<>>
    /\ last = [op |-> "init"]

NextRegistry ==
    \/ \E skill \in RegisterPool : Register(skill)
    \/ \E name \in NamePool, version \in VersionPool : Get(name, version)

SpecRegistry == InitEmpty /\ [][NextRegistry]_vars

----------------------------------------------------------------------------
(* Claims about the registry *)

\* C3: for every skill s that passes validate, from any registry state,
\* register(s) followed by get(s.name, s.version) returns s itself, whatever
\* other skills or other versions of the same name the registry holds.
C3_RegisterThenGet ==
    (/\ last.op = "get"
     /\ last.prev_skill # <<>>
     /\ last.name = last.prev_skill[1].metadata.name
     /\ last.version = last.prev_skill[1].metadata.version)
    => last.result = last.prev_skill

\* a get of the skill just registered, in a registry that also holds another
\* version of the same name and a skill of another name
C3_Witness ==
    /\ last.op = "get"
    /\ last.prev_skill # <<>>
    /\ last.name = last.prev_skill[1].metadata.name
    /\ last.version = last.prev_skill[1].metadata.version
    /\ last.result = last.prev_skill
    /\ \E i \in 1..Len(registry) :
          /\ registry[i].skill.metadata.name = last.name
          /\ registry[i].skill.metadata.version # last.version
          /\ StrLess(last.version, registry[i].skill.metadata.version)
    /\ \E i \in 1..Len(registry) : registry[i].skill.metadata.name # last.name

\* C4: register of a skill with a validate error raises and leaves the registry
\* mapping as it was; every stored skill had an empty validate result.
C4_RegisterFailsClosed ==
    /\ (last.op = "register" /\ Validate(last.skill) # <<>>)
          => (last.raised /\ registry = last.before)
    /\ (last.op = "register" /\ Validate(last.skill) = <<>>) => ~last.raised
    /\ \A i \in 1..Len(registry) : Validate(registry[i].skill) = <<>>

\* a rejected registration into a registry that already holds skills
C4_Witness ==
    /\ last.op = "register"
    /\ last.raised
    /\ Len(last.errors) >= 2
    /\ Len(registry) >= 2
    /\ registry = last.before


----------------------------------------------------------------------------
(* Trigger matching as an action over bounded inputs *)

\* longest trigger list of a skill
MaxTriggers == 2

TriggerUniverse ==
    {TriggerRule("keyword", PatAb, 10, {}),
     TriggerRule("keyword", <<65, 98>>, 0, {}),
     TriggerRule("keyword", Empty, 0, {}),
     TriggerRule("explicit", PatAb, 5, {}),
     TriggerRule("explicit", PatAb, 200, {}),
     TriggerRule("context", PatAb, 5, {<<"action", Str("review")>>}),
     TriggerRule("context", PatAb, 0, {}),
     TriggerRule("context", PatAb, 0, {<<"action", Str("review")>>, <<"lang", None>>}),
     TriggerRule("auto", PatAb, 0, {})}

\* the trigger lists of at most MaxTriggers rules
TriggerLists ==
    UNION {[1..n -> TriggerUniverse] : n \in 0..MaxTriggers}

\* "", "ab", "AB", "xAbx", "axb", "a"
InputTexts ==
    {Empty, PatAb, <<65, 66>>, <<120, 65, 98, 120>>, <<97, 120, 98>>, <<97>>}

\* None, {}, {action: review}, {action: deploy}, {action: review, lang: py}
Contexts ==
    {<<>>, <<{}>>, <<{<<"action", Str("review")>>}>>,
     <<{<<"action", Str("deploy")>>}>>,
     <<{<<"action", Str("review")>>, <<"lang", Str("py")>>}>>}

\* the call drawn: a skill with these triggers is asked about this input
InitTrigger ==
    /\ registry = <<>>
    /\ invocations = <<>>
    /\ int_results = <<>>
    /\ e2e_results = <<>>
    /\ executions = <<>>
    /\ all_results = <<>>
    /\ baseline = <<>>
    /\ \E triggers \in TriggerLists, input_text \in InputTexts, context \in Contexts :
          last = [op |-> "call_can_trigger", triggers |-> triggers,
                  input_text |-> input_text, context |-> context]

\* skill.can_trigger(input_text, context) on a skill with the drawn triggers
CanTriggerOp ==
    /\ last.op = "call_can_trigger"
    /\ last' = [op |-> "can_trigger", triggers |-> last.triggers,
                input_text |-> last.input_text, context |-> last.context,
                result |-> CanTrigger(Skill(SkillMetadata(NameCr, Ver100, Desc20, Author),
                                            last.triggers, <<>>, "impl", Tmpl, <<>>, <<>>),
                                      last.input_text, last.context)]
    /\ UNCHANGED <<registry, invocations, int_results, e2e_results, executions, all_results, baseline>>

NextTrigger == CanTriggerOp

SpecTrigger == InitTrigger /\ [][NextTrigger]_vars

\* two code points are the same letter up to case
SameLetter(a, b) ==
    \/ a = b
    \/ a >= 65 /\ a <= 90 /\ b = a + 32
    \/ b >= 65 /\ b <= 90 /\ a = b + 32

\* the rule as the claim describes it: priority plays no part
RuleMatchesAsStated(rule, input_text, context) ==
    \/ /\ rule.condition_type = "keyword"
       /\ \E off \in 0..(Len(input_text) - Len(rule.pattern)) :
             \A j \in 1..Len(rule.pattern) :
                SameLetter(input_text[off + j], rule.pattern[j])
    \/ /\ rule.condition_type = "explicit"
       /\ Len(rule.pattern) = Len(input_text)
       /\ \A j \in 1..Len(input_text) : rule.pattern[j] = input_text[j]
    \/ /\ rule.condition_type = "context"
       /\ Len(context) = 1
       /\ \A req \in rule.context_requirements :
             \/ <<req[1], req[2]>> \in context[1]
             \/ req[2] = None /\ ~\E kv \in context[1] : kv[1] = req[1]

\* C5: can_trigger is true iff at least one trigger rule matches (keyword:
\* case-insensitive substring; explicit: equal to the input; context: a context
\* is supplied and every required pair equals the context's value for the key,
\* an absent key reading as None); priorities and order play no part.
C5_CanTriggerIffAnyRuleMatches ==
    last.op = "can_trigger" =>
        (last.result <=>
            \E rule \in {last.triggers[i] : i \in 1..Len(last.triggers)} :
                RuleMatchesAsStated(rule, last.input_text, last.context))

\* a keyword rule matching an input of another case, listed after a rule of
\* higher priority that does not match
C5_Witness ==
    /\ last.op = "can_trigger"
    /\ last.result
    /\ Len(last.triggers) = 2
    /\ last.triggers[1].priority > last.triggers[2].priority
    /\ ~Matches(last.triggers[1], last.input_text, last.context)
    /\ last.triggers[2].condition_type = "keyword"
    /\ last.input_text = <<120, 65, 98, 120>>

----------------------------------------------------------------------------
(* Skill.execute as an action over bounded inputs *)

\* a skill with two validated parameters
SkillTwoValidators ==
    Skill(SkillMetadata(<<118, 118>>, Ver100, Desc20, Author),
          <<KeywordRule>>,
          <<CodeParam, RefactorTypeParam, FrameworkParam>>,
          "impl", Empty, <<"example">>, <<"red flag">>)

ExecuteSkills == {CodeReview(Ver100), TestGenerator, Refactor, SkillA, SkillTwoValidators}

\* the keyword arguments of a call: any subset of the names, each with a value
ParamChoices ==
    {c1 \cup c2 \cup c3 \cup c4 :
        c1 \in {{}, {<<"code", Str("x")>>},
                {<<"function_name", Str("f")>>, <<"function_code", Str("x")>>}},
        c2 \in {{}, {<<"refactor_type", Str("simplify")>>},
                {<<"refactor_type", Str("bogus")>>}},
        c3 \in {{}, {<<"test_framework", Str("pytest")>>},
                {<<"test_framework", Str("bogus")>>},
                {<<"test_framework", PyInt("12345")>>}},
        c4 \in {{}, {<<"_project_dir", Str("/tmp/e2e")>>}}}

\* the call drawn: a skill, its keyword arguments, what its body would do
InitExecute ==
    /\ registry = <<>>
    /\ invocations = <<>>
    /\ int_results = <<>>
    /\ e2e_results = <<>>
    /\ executions = <<>>
    /\ all_results = <<>>
    /\ baseline = <<>>
    /\ \E skill \in ExecuteSkills, params \in ParamChoices, body \in BodyOutcomes :
          last = [op |-> "call_execute", skill |-> skill, params |-> params,
                  body |-> body]

\* skill.execute(**params), the caller catching what it raises
ExecuteOp ==
    /\ last.op = "call_execute"
    /\ last' = [op |-> "execute", skill |-> last.skill, params |-> last.params,
                body |-> last.body,
                result |-> Execute(last.skill, last.params, last.body)]
    /\ UNCHANGED <<registry, invocations, int_results, e2e_results, executions, all_results, baseline>>

NextExecute == ExecuteOp

SpecExecute == InitExecute /\ [][NextExecute]_vars

\* the declared parameters of a skill, as a set
DeclaredParams(skill) == {skill.parameters[i] : i \in 1..Len(skill.parameters)}

\* the required names missing from a call
MissingAsStated(skill, params) ==
    {p.name : p \in {q \in DeclaredParams(skill) : q.required}}
        \ {kv[1] : kv \in params}

\* the supplied names whose validator rejects the supplied value
RejectedAsStated(skill, params) ==
    {p.name : p \in {q \in DeclaredParams(skill) :
                        /\ q.validation # "None"
                        /\ \E kv \in params :
                              kv[1] = q.name /\ ~Accepts(q.validation, kv[2])}}

----------------------------------------------------------------------------
(* Integration run_test_case as an action over bounded inputs *)

\* the durations a measurement may give, in milliseconds
Durations == {0, 4}

IntParamChoices ==
    {{}, {<<"code", Str("x")>>},
     {<<"code", Str("x")>>, <<"test_framework", Str("pytest")>>},
     {<<"function_name", Str("f")>>, <<"function_code", Str("x")>>},
     {<<"function_name", Str("f")>>, <<"function_code", Str("x")>>,
      <<"test_framework", Str("bogus")>>}}

IntegrationTestCases ==
    {IntegrationTestCase("case", n, v, ps, eo, et, ss) :
        n \in {NameCr, NameTg, <<120>>}, v \in {Empty, Ver100, Ver900},
        ps \in IntParamChoices,
        eo \in {None, PyDict("review"), PyDict("other")},
        et \in {"", "dict", "str"}, ss \in BOOLEAN}

\* the case drawn, on a tester over the example registry
InitIntegrationCase ==
    /\ registry = ExampleRegistry
    /\ invocations = <<>>
    /\ int_results = <<>>
    /\ e2e_results = <<>>
    /\ executions = <<>>
    /\ all_results = <<>>
    /\ baseline = <<>>
    /\ \E tc \in IntegrationTestCases, body \in BodyOutcomes, d \in Durations :
          last = [op |-> "call_int_run_test_case", test_case |-> tc,
                  body |-> body, duration |-> d]

\* tester.run_test_case(test_case)
IntRunTestCaseOp ==
    /\ last.op = "call_int_run_test_case"
    /\ Len(invocations) < MaxInvocations
    /\ LET run == IntRunTestCase(registry, last.test_case, last.body, last.duration)
       IN /\ invocations' = invocations \o run.appended
          /\ last' = [op |-> "int_run_test_case", test_case |-> last.test_case,
                      body |-> last.body, result |-> run.result,
                      body_invoked |-> run.body_invoked]
    /\ UNCHANGED <<registry, int_results, e2e_results, executions, all_results, baseline>>

NextIntegrationCase == IntRunTestCaseOp

SpecIntegrationCase == InitIntegrationCase /\ [][NextIntegrationCase]_vars

\* the skill the case names is stored in the registry (under name@version when
\* a version is given, under the name otherwise)
SkillFound(reg, tc) ==
    \E i \in 1..Len(reg) :
        /\ reg[i].skill.metadata.name = tc.skill_name
        /\ tc.skill_version # Empty => reg[i].key = SkillId(tc.skill_name, tc.skill_version)

\* execute returns for the case: parameters accepted, a body exists and returns
ExecuteReturns(reg, tc, body) ==
    LET skill == RegistryGet(reg, tc.skill_name, tc.skill_version)[1]
    IN /\ MissingAsStated(skill, tc.input_params) = {}
       /\ RejectedAsStated(skill, tc.input_params) = {}
       /\ skill.implementation # "None"
       /\ ~body.raises

\* the output meets the expectation of the case
OutputMatches(tc, output) ==
    /\ tc.expected_output_type # "" => output.type = tc.expected_output_type
    /\ tc.expected_output # None => output = tc.expected_output

\* C1: for a case whose skill is found, the verdict is given by the table:
\* returns+matches+should_succeed -> Passed; returns+no match+should_succeed ->
\* Failed; returns+should fail -> Failed; raises+should_succeed -> Failed;
\* raises+should fail -> Passed; no other status for a found skill.
C1_IntegrationVerdictTable ==
    (last.op = "int_run_test_case" /\ SkillFound(registry, last.test_case)) =>
        LET tc == last.test_case
            returns == ExecuteReturns(registry, tc, last.body)
            verdict ==
                CASE returns /\ tc.should_succeed /\ OutputMatches(tc, last.body.output)
                        -> "passed"
                  [] returns /\ tc.should_succeed /\ ~OutputMatches(tc, last.body.output)
                        -> "failed"
                  [] returns /\ ~tc.should_succeed -> "failed"
                  [] ~returns /\ tc.should_succeed -> "failed"
                  [] ~returns /\ ~tc.should_succeed -> "passed"
        IN last.result.status = verdict

\* an expected failure that happened: a validator rejected the framework
C1_Witness ==
    /\ last.op = "int_run_test_case"
    /\ SkillFound(registry, last.test_case)
    /\ ~last.test_case.should_succeed
    /\ ~last.body_invoked
    /\ last.result.status = "passed"
    /\ Len(invocations) = 1 /\ ~invocations[1].success


----------------------------------------------------------------------------
(* E2E run_test_case as an action over bounded inputs *)

\* longest workflow of a case
MaxSteps == 2

\* what a step may be and meet: a skill that is not registered, a call whose
\* parameters are rejected, a body that raises, a step that completes (with no
\* validation_func, or with one that returns true, returns false or raises)
StepScenarios ==
    LET Scenario(skill_name, input_params, has_validation, raises, valid) ==
            [skill_name |-> skill_name, input_params |-> input_params,
             has_validation |-> has_validation,
             body |-> [raises |-> raises,
                       output |-> IF raises THEN None ELSE PyDict("review")],
             valid |-> valid]
        code == {<<"code", Str("x")>>}
    IN {Scenario(<<120>>, code, FALSE, FALSE, "true"),
        Scenario(NameCr, {}, FALSE, FALSE, "true"),
        Scenario(NameCr, code, TRUE, TRUE, "true"),
        Scenario(NameCr, code, FALSE, FALSE, "true"),
        Scenario(NameCr, code, TRUE, FALSE, "true"),
        Scenario(NameCr, code, TRUE, FALSE, "false"),
        Scenario(NameCr, code, TRUE, FALSE, "raises")}

StepNames == <<"s1", "s2", "s3", "s4">>

\* a scenario list completes every step
Completes(scenarios) ==
    \A i \in 1..Len(scenarios) :
        /\ scenarios[i].skill_name = NameCr
        /\ scenarios[i].input_params # {}
        /\ ~scenarios[i].body.raises
        /\ scenarios[i].has_validation => scenarios[i].valid = "true"

\* the case drawn, with what its surroundings do; what a run cannot observe
\* is left at a fixed value
InitE2ECase ==
    /\ registry = ExampleRegistry
    /\ invocations = <<>>
    /\ int_results = <<>>
    /\ e2e_results = <<>>
    /\ executions = <<>>
    /\ all_results = <<>>
    /\ baseline = <<>>
    /\ \E n \in 0..MaxSteps : \E scenarios \in [1..n -> StepScenarios] :
       \E has_setup \in BOOLEAN, has_teardown \in BOOLEAN, provision_ok \in BOOLEAN :
       \E files \in {<<>>, <<"a.txt", "b.txt">>}, commits \in {0, 2},
          cmds \in {<<>>, <<"make", "test">>} :
       \E setup_raises \in (IF has_setup /\ provision_ok THEN BOOLEAN ELSE {FALSE}),
          teardown_raises \in (IF has_teardown /\ provision_ok THEN BOOLEAN ELSE {FALSE}) :
       LET validates == provision_ok /\ ~setup_raises /\ Completes(scenarios)
       IN
       \E missing \in (IF validates THEN SUBSET {files[i] : i \in 1..Len(files)} ELSE {{}}),
          git \in (IF validates /\ commits > 0
                   THEN {[raises |-> TRUE, count |-> 0]}
                        \cup {[raises |-> FALSE, count |-> c] : c \in 1..3}
                   ELSE {[raises |-> FALSE, count |-> 0]}),
          outcomes \in (IF validates
                        THEN [1..Len(cmds) -> {"ok", "nonzero", "timeout"}]
                        ELSE {[i \in 1..Len(cmds) |-> "ok"]}) :
          last = [op |-> "call_e2e_run_test_case",
                  test_case |->
                      E2ETestCase("e2e",
                          [i \in 1..n |-> WorkflowStep(StepNames[i],
                                              scenarios[i].skill_name,
                                              scenarios[i].input_params,
                                              scenarios[i].has_validation)],
                          has_setup, has_teardown, files, commits, cmds),
                  env |-> [provision_ok |-> provision_ok,
                           setup_raises |-> setup_raises,
                           steps |-> [i \in 1..n |-> [body |-> scenarios[i].body,
                                                      valid |-> scenarios[i].valid]],
                           missing_files |-> missing, git |-> git,
                           commands |-> outcomes,
                           teardown_raises |-> teardown_raises]]

\* runner.run_test_case(test_case)
E2ERunTestCaseOp ==
    /\ last.op = "call_e2e_run_test_case"
    /\ LET run == E2ERunTestCase(registry, last.test_case, last.env, 0)
       IN /\ executions' = executions \o run.appended
          /\ last' = [op |-> "e2e_run_test_case", test_case |-> last.test_case,
                      env |-> last.env, result |-> run.result,
                      execution |-> run.execution, validations |-> run.validations,
                      events |-> run.events]
    /\ UNCHANGED <<registry, invocations, int_results, e2e_results, all_results, baseline>>

NextE2ECase == E2ERunTestCaseOp

SpecE2ECase == InitE2ECase /\ [][NextE2ECase]_vars

\* how many events of a kind a run shows
CountEvents(events, kind) ==
    Cardinality({i \in 1..Len(events) : events[i].kind = kind})

\* C10: a declared teardown hook is invoked exactly once in every run of the
\* case, whatever the outcome (Passed, Failed, or Error from a provisioning
\* failure or a raising setup hook).
C10_TeardownAlwaysOnce ==
    (last.op = "e2e_run_test_case" /\ last.test_case.teardown_func)
        => CountEvents(last.events, "teardown") = 1

\* what run_test_case does keep of C10: a declared teardown hook is invoked
\* exactly once in every run in which the workspace was provisioned (Passed,
\* Failed, or Error from a raising setup hook), and not at all when
\* provisioning failed.
C10_TeardownOnceIfProvisioned ==
    (last.op = "e2e_run_test_case" /\ last.test_case.teardown_func)
        => CountEvents(last.events, "teardown")
              = (IF last.env.provision_ok THEN 1 ELSE 0)

\* an Error run (the setup hook raised) whose teardown hook ran once
C10_Witness ==
    /\ last.op = "e2e_run_test_case"
    /\ last.test_case.teardown_func
    /\ last.result.status = "error"
    /\ last.env.provision_ok
    /\ CountEvents(last.events, "teardown") = 1

----------------------------------------------------------------------------
(* detect_regression as a function of the baseline file and the snapshot *)

\* ledgers by their counts: [total, passed] with the rates 0%, 0.00%,
\* 100.00%, 96.00%, 84.00%, 95.00%, 98.00%, 92.00%, 10.71%, 5.71%, 2.44%
\* and 4.44%
LedgerCounts ==
    {<<0, 0>>, <<1, 0>>, <<1, 1>>, <<25, 24>>, <<25, 21>>, <<20, 19>>,
     <<50, 49>>, <<25, 23>>, <<28, 3>>, <<35, 2>>, <<41, 1>>, <<45, 2>>}

\* duration of every result of a ledger, in ms
ResultDurations == {0, 2, 3, 4}

\* the snapshots of these ledgers
SnapshotPool ==
    {Snapshot(c[1], c[2], c[1] - c[2], 0,
              IF c[1] > 0 THEN PassRate(c[2], c[1]) ELSE 0,
              c[1] * d,
              IF c[1] > 0 THEN [num |-> c[1] * d, den |-> c[1]]
              ELSE [num |-> 0, den |-> 1]) :
        c \in LedgerCounts, d \in ResultDurations}

InitRegression ==
    /\ registry = ExampleRegistry
    /\ invocations = <<>>
    /\ int_results = <<>>
    /\ e2e_results = <<>>
    /\ executions = <<>>
    /\ all_results = <<>>
    /\ \E file \in {<<>>} \cup {SaveBaseline(m) : m \in SnapshotPool} :
          baseline = file
    /\ \E current \in SnapshotPool :
          last = [op |-> "call_detect_regression", current |-> current]

\* detector.detect_regression(current_metrics)
DetectRegressionOp ==
    /\ last.op = "call_detect_regression"
    /\ last' = [op |-> "detect_regression", current |-> last.current,
                result |-> DetectRegression(baseline, last.current)]
    /\ UNCHANGED <<registry, invocations, int_results, e2e_results, executions,
                   all_results, baseline>>

NextRegression == DetectRegressionOp

SpecRegression == InitRegression /\ [][NextRegression]_vars

\* the regressions list of a result has an entry for the metric
HasEntry(result, metric) ==
    \E i \in 1..Len(result.regressions) : result.regressions[i].metric = metric

\* C7: with a baseline present, a call that returns lists a pass_rate entry
\* iff the current rate is more than 5 points below the baseline rate, an
\* avg_duration_ms entry iff the current mean exceeds 1.5 times the baseline
\* mean, both when both hold, and has_regression iff the list is non-empty.
C7_RegressionsAsStated ==
    (last.op = "detect_regression" /\ baseline # <<>> /\ ~last.result.raised) =>
        /\ HasEntry(last.result, "pass_rate")
              <=> last.current.pass_rate < baseline[1].pass_rate - 500
        /\ HasEntry(last.result, "avg_duration_ms")
              <=> DurationRegressed(baseline[1], last.current)
        /\ last.result.has_regression <=> last.result.regressions # <<>>

\* C8: with no baseline, detect_regression returns has_regression = false and
\* action = "save_baseline" for every snapshot.
C8_NoBaselineNeverRegresses ==
    (last.op = "detect_regression" /\ baseline = <<>>) =>
        /\ ~last.result.raised
        /\ ~last.result.has_regression
        /\ last.result.action = "save_baseline"

\* a first call on a snapshot with tests, none passed, and slow
C8_Witness ==
    /\ last.op = "detect_regression"
    /\ baseline = <<>>
    /\ last.current.total_tests > 0
    /\ last.current.pass_rate = 0
    /\ last.current.avg_duration_ms.num > 0
    /\ last.result.action = "save_baseline"

----------------------------------------------------------------------------
(* The unified runner over the example registry and one baseline file *)

\* an integration case on a skill with what its body does and the time it takes
IntFixture(name, skill_name, raises, duration) ==
    [test_case |-> IntegrationTestCase(name, skill_name, Empty,
                       {<<"code", Str("x")>>}, None, "", TRUE),
     oracle |-> [body |-> [raises |-> raises,
                           output |-> IF raises THEN None ELSE PyDict("review")],
                 duration |-> duration]]

\* an E2E case of one step on the review skill, in a workspace that is or is
\* not provisioned
E2EFixture(name, provision_ok, duration) ==
    [test_case |-> E2ETestCase(name,
                       <<WorkflowStep("s1", NameCr, {<<"code", Str("x")>>}, FALSE)>>,
                       FALSE, FALSE, <<>>, 0, <<>>),
     oracle |-> [env |-> [provision_ok |-> provision_ok, setup_raises |-> FALSE,
                          steps |-> <<[body |-> [raises |-> FALSE,
                                                 output |-> PyDict("review")],
                                       valid |-> "true"]>>,
                          missing_files |-> {}, git |-> [raises |-> FALSE, count |-> 0],
                          commands |-> <<>>, teardown_raises |-> FALSE],
                 duration |-> duration]]

IntSuites ==
    LET pass == IntFixture("int_pass", NameCr, FALSE, 4)
        slow == IntFixture("int_slow", NameCr, FALSE, 12)
        fail == IntFixture("int_fail", NameCr, TRUE, 4)
        error == IntFixture("int_error", <<120>>, FALSE, 0)
    IN {<<>>, <<pass>>, <<slow>>, <<fail>>, <<error>>, <<pass, fail>>}

E2ESuites ==
    {<<>>, <<E2EFixture("e2e_error", FALSE, 0)>>}

\* run_unit, run_integration, run_e2e, detect_regression
RunFlags ==
    {<<TRUE, TRUE, TRUE, TRUE>>, <<FALSE, TRUE, TRUE, TRUE>>,
     <<TRUE, FALSE, FALSE, TRUE>>, <<FALSE, TRUE, TRUE, FALSE>>}

\* skills_to_test: None, or the review skill and a name nobody registered
SkillsToTest == {<<>>, <<<<NameCr, <<120>>>>>>}

RunnerCall(names, ints, e2es, flags) ==
    [skills_to_test |-> names,
     integration_tests |-> [i \in 1..Len(ints) |-> ints[i].test_case],
     integration_oracles |-> [i \in 1..Len(ints) |-> ints[i].oracle],
     e2e_tests |-> [i \in 1..Len(e2es) |-> e2es[i].test_case],
     e2e_oracles |-> [i \in 1..Len(e2es) |-> e2es[i].oracle],
     run_unit |-> flags[1], run_integration |-> flags[2],
     run_e2e |-> flags[3], detect_regression |-> flags[4]]

\* the calls made: every integration suite under every choice of phases on
\* the whole registry, and every choice of skills, E2E suite and phases with
\* the two-case integration suite
RunnerCalls ==
    {RunnerCall(<<>>, ints, <<>>, flags) : ints \in IntSuites, flags \in RunFlags}
    \cup {RunnerCall(names, ints, e2es, flags) :
            names \in SkillsToTest, ints \in {s \in IntSuites : Len(s) = 2},
            e2es \in E2ESuites, flags \in RunFlags}

InitRunner ==
    /\ registry = ExampleRegistry
    /\ invocations = <<>>
    /\ int_results = <<>>
    /\ e2e_results = <<>>
    /\ executions = <<>>
    /\ all_results = <<>>
    /\ baseline = <<>>
    /\ last = [op |-> "init"]

\* runner.run_all_tests(...), the baseline file in the working directory
RunAllTestsOp(call) ==
    \E run \in {RunAllTests(registry, baseline, call)} :
        /\ all_results' = run.all_results
        /\ baseline' = run.file
        /\ last' = [op |-> "run_all_tests", call |-> call, file_before |-> baseline,
                    ledger_was_empty |-> (all_results = <<>>),
                    regression |-> run.regression, raised |-> run.raised,
                    metrics |-> run.metrics,
                    verdict |-> OverallVerdict(run.all_results)]
        /\ UNCHANGED <<registry, invocations, int_results, e2e_results, executions>>

\* RegressionDetector().detect_regression on the metrics of the runner's ledger
DetectOnLedgerOp ==
    /\ last.op = "run_all_tests"
    /\ last' = [op |-> "detect_regression", file_before |-> baseline,
                current |-> ComputeOverallMetrics(all_results),
                result |-> DetectRegression(baseline,
                                            ComputeOverallMetrics(all_results))]
    /\ UNCHANGED <<registry, invocations, int_results, e2e_results, executions,
                   all_results, baseline>>

NextRunner ==
    \/ \E call \in RunnerCalls : RunAllTestsOp(call)
    \/ DetectOnLedgerOp

SpecRunner == InitRunner /\ [][NextRunner]_vars

\* the ledger holds a result of the status
HasStatus(results, status) ==
    \E i \in 1..Len(results) : results[i].status = status

\* C6: after a run of the unified runner the overall verdict is false iff the
\* ledger holds a Failed or an Error result; a Skipped result added to the
\* ledger does not change it, and the empty ledger gives true.
C6_VerdictIffNoFailedNoError ==
    (last.op = "run_all_tests" /\ ~last.raised) =>
        /\ last.verdict = ~(HasStatus(all_results, "failed")
                            \/ HasStatus(all_results, "error"))
        /\ OverallVerdict(Append(all_results, TestResult("skipped", "skipped", "", 0)))
              = last.verdict
        /\ all_results = <<>> => last.verdict

\* a run whose ledger holds an Error result and no Failed one
C6_Witness ==
    /\ last.op = "run_all_tests"
    /\ ~last.raised
    /\ HasStatus(all_results, "error")
    /\ ~HasStatus(all_results, "failed")
    /\ ~last.verdict

----------------------------------------------------------------------------
(* Order of the phases of one E2E run *)

\* the phase an event belongs to
PhaseOf(kind) ==
    CASE kind = "provision" -> 1
      [] kind = "setup_hook" -> 2
      [] kind \in {"lookup", "execute", "step_validation"} -> 3
      [] kind \in {"check_file", "check_commits", "command"} -> 4
      [] kind = "teardown" -> 5
      [] kind = "result" -> 6

\* the events of a phase, in the order they happened
RECURSIVE EventsOfPhase(_, _)
EventsOfPhase(events, phase) ==
    IF events = <<>> THEN <<>>
    ELSE (IF PhaseOf(Head(events).kind) = phase THEN <<Head(events)>> ELSE <<>>)
         \o EventsOfPhase(Tail(events), phase)

\* the steps whose skill was looked up, in the order of the lookups
RECURSIVE StepsStarted(_)
StepsStarted(events) ==
    IF events = <<>> THEN <<>>
    ELSE (IF Head(events).kind \in {"lookup", "execute"}
          THEN <<Head(events).name>> ELSE <<>>)
         \o StepsStarted(Tail(events))

\* C11: within one E2E run the phases occur in the order provisioning, setup
\* hook, workflow steps, outcome validation, teardown hook, result; the setup
\* hook runs only after provisioning succeeded, the steps are invoked one at a
\* time in declared order, outcome validation starts only after the last step
\* completed, and the teardown hook runs before the result is delivered.
C11_PhasesInOrder ==
    last.op = "e2e_run_test_case" =>
        LET ev == last.events
            wf == last.test_case.workflow
            started == StepsStarted(ev)
        IN /\ \A i, j \in 1..Len(ev) :
                  i < j => PhaseOf(ev[i].kind) <= PhaseOf(ev[j].kind)
           /\ ev[1].kind = "provision"
           /\ CountEvents(ev, "provision") = 1
           /\ CountEvents(ev, "setup_hook") > 0 => ev[1].detail = "returns"
           /\ CountEvents(ev, "setup_hook") <= 1
           /\ EventsOfPhase(ev, 3) # <<>> =>
                  \A i \in 1..Len(ev) : ev[i].kind = "setup_hook" => ev[i].detail = "returns"
           /\ Len(started) <= Len(wf)
           /\ \A i \in 1..Len(started) : started[i] = wf[i].name
           /\ EventsOfPhase(ev, 4) # <<>> =>
                  /\ Len(started) = Len(wf)
                  /\ last.execution.steps_completed = [i \in 1..Len(wf) |-> wf[i].name]
                  /\ last.execution.steps_failed = <<>>
           /\ ev[Len(ev)].kind = "result"
           /\ CountEvents(ev, "result") = 1

\* a run through every phase: setup hook, two steps, a check, teardown
C11_Witness ==
    /\ last.op = "e2e_run_test_case"
    /\ CountEvents(last.events, "setup_hook") = 1
    /\ Len(StepsStarted(last.events)) = 2
    /\ EventsOfPhase(last.events, 4) # <<>>
    /\ CountEvents(last.events, "teardown") = 1
    /\ last.result.status = "passed"

----------------------------------------------------------------------------
(* Failing steps of an E2E workflow *)

\* the call a workflow step makes, as an integration case would name it
StepCall(step) ==
    [skill_name |-> step.skill_name, skill_version |-> Empty,
     input_params |-> WithProjectDir(step.input_params)]

\* the step fails: its skill is not registered, its invocation raises, or its
\* validation predicate does not return true (returns false, or raises)
StepFails(reg, step, oracle) ==
    \/ ~SkillFound(reg, StepCall(step))
    \/ ~ExecuteReturns(reg, StepCall(step), oracle.body)
    \/ step.has_validation /\ oracle.valid # "true"

\* the workflow of the run was entered: the workspace was provisioned and the
\* setup hook, if any, returned
WorkflowEntered ==
    /\ last.op = "e2e_run_test_case"
    /\ last.env.provision_ok
    /\ ~(last.test_case.setup_func /\ last.env.setup_raises)

\* C12: the first step of a workflow that fails (skill absent, invocation
\* raises, validation predicate fails) aborts the workflow: no later step's
\* skill is invoked, outcome validation is not performed, the case is Failed.
C12_FirstFailingStepAborts ==
    WorkflowEntered =>
        LET wf == last.test_case.workflow
            Fails(i) == StepFails(registry, wf[i], last.env.steps[i])
        IN \A i \in 1..Len(wf) :
              (Fails(i) /\ \A j \in 1..(i - 1) : ~Fails(j)) =>
                  /\ StepsStarted(last.events) = [k \in 1..i |-> wf[k].name]
                  /\ EventsOfPhase(last.events, 4) = <<>>
                  /\ last.validations = <<>>
                  /\ last.result.status = "failed"

\* a two-step workflow whose first step was invoked and failed its predicate,
\* and whose second step would have completed
C12_Witness ==
    /\ WorkflowEntered
    /\ Len(last.test_case.workflow) = 2
    /\ last.test_case.workflow[1].has_validation
    /\ last.env.steps[1].valid = "false"
    /\ ~StepFails(registry, last.test_case.workflow[2], last.env.steps[2])
    /\ StepsStarted(last.events) = <<"s1">>
    /\ last.execution.steps_completed = <<"s1">>
    /\ last.result.status = "failed"

----------------------------------------------------------------------------
(* Outcome validation of an E2E run *)

\* every step of the workflow of the run completed
WorkflowCompleted ==
    /\ WorkflowEntered
    /\ \A i \in 1..Len(last.test_case.workflow) :
          ~StepFails(registry, last.test_case.workflow[i], last.env.steps[i])

\* the least element of a non-empty set of numbers
Least(S) == CHOOSE i \in S : \A j \in S : i <= j

\* the checks that are to be evaluated, in order, as <<kind, item>>: the
\* expected files up to the first one missing; then, no file missing, the
\* commit count when one is expected; then, the count sufficient, the
\* validation commands up to the first that does not exit with 0 in time
ChecksDue(test_case, env) ==
    LET files == test_case.expected_files
        cmds == test_case.validation_commands
        bad_files == {i \in 1..Len(files) : files[i] \in env.missing_files}
        bad_cmds == {i \in 1..Len(cmds) : env.commands[i] # "ok"}
        commits_due == bad_files = {} /\ test_case.expected_git_commits > 0
        commits_ok == /\ ~env.git.raises
                      /\ env.git.count >= test_case.expected_git_commits
        cmds_due == bad_files = {} /\ (commits_due => commits_ok)
    IN [checks |->
            [i \in 1..(IF bad_files = {} THEN Len(files) ELSE Least(bad_files))
                |-> <<"check_file", files[i]>>]
            \o (IF commits_due THEN <<<<"check_commits", "">>>> ELSE <<>>)
            \o (IF cmds_due
                THEN [i \in 1..(IF bad_cmds = {} THEN Len(cmds) ELSE Least(bad_cmds))
                         |-> <<"command", cmds[i]>>]
                ELSE <<>>),
        all_pass |-> bad_files = {} /\ (commits_due => commits_ok) /\ bad_cmds = {}]

\* C13: outcome validation is performed only if every step completed; its
\* checks run in the order files, commit count (only when the expected count
\* is > 0, passing iff actual >= expected), commands (each must exit 0 in
\* time); the first failing check ends validation with the case Failed and
\* nothing is evaluated after it; if every check passes the case is Passed.
C13_OutcomeChecksInOrder ==
    last.op = "e2e_run_test_case" =>
        LET checked == EventsOfPhase(last.events, 4)
            due == ChecksDue(last.test_case, last.env)
        IN /\ ~WorkflowCompleted => checked = <<>>
           /\ WorkflowCompleted =>
                /\ [i \in 1..Len(checked) |-> <<checked[i].kind, checked[i].name>>]
                      = due.checks
                /\ last.result.status = (IF due.all_pass THEN "passed" ELSE "failed")

\* a run whose files were found and whose commit count fell short: the
\* commands that follow were not run, the case is Failed
C13_Witness ==
    /\ WorkflowCompleted
    /\ Len(last.test_case.workflow) > 0
    /\ last.test_case.expected_files # <<>>
    /\ last.test_case.validation_commands # <<>>
    /\ ~last.env.git.raises
    /\ last.env.git.count < last.test_case.expected_git_commits
    /\ CountEvents(last.events, "check_file") = Len(last.test_case.expected_files)
    /\ CountEvents(last.events, "check_commits") = 1
    /\ CountEvents(last.events, "command") = 0
    /\ last.result.status = "failed"

\* C14: a case with no expected files, an expected commit count of 0 and no
\* validation commands whose workflow fully completes (an empty workflow
\* included) is Passed with zero validation checks recorded.
C14_NoExpectationsPassed ==
    (/\ WorkflowCompleted
     /\ last.test_case.expected_files = <<>>
     /\ last.test_case.expected_git_commits = 0
     /\ last.test_case.validation_commands = <<>>) =>
        /\ last.result.status = "passed"
        /\ last.validations = <<>>
        /\ EventsOfPhase(last.events, 4) = <<>>

\* the empty workflow with nothing expected
C14_Witness ==
    /\ WorkflowCompleted
    /\ last.test_case.workflow = <<>>
    /\ last.test_case.expected_files = <<>>
    /\ last.test_case.expected_git_commits = 0
    /\ last.test_case.validation_commands = <<>>
    /\ last.result.status = "passed"
    /\ last.validations = <<>>

----------------------------------------------------------------------------
(* integration_test_framework.py: PerformanceTester.benchmark_skill *)

\* most iterations of one benchmark
MaxIterations == 3

\* a sorted list with one more element
RECURSIVE Insert(_, _)
Insert(x, sorted) ==
    IF sorted = <<>> THEN <<x>>
    ELSE IF x <= Head(sorted) THEN <<x>> \o sorted
    ELSE <<Head(sorted)>> \o Insert(x, Tail(sorted))

\* sorted(durations)
RECURSIVE Sorted(_)
Sorted(durations) ==
    IF durations = <<>> THEN <<>>
    ELSE Insert(Head(durations), Sorted(Tail(durations)))

\* sum(durations)
RECURSIVE Sum(_)
Sum(durations) ==
    IF durations = <<>> THEN 0 ELSE Head(durations) + Sum(Tail(durations))

\* sorted(durations)[int(len(durations) * 0.95)] and the like; the product
\* truncates to len * percent \div 100 for every length below 2000
Percentile(durations, percent) ==
    Sorted(durations)[(Len(durations) * percent) \div 100 + 1]

\* faulty variant of the loop: the first iteration that raises ends it
RECURSIVE BenchmarkLoopStopsAtError(_, _, _, _, _)
BenchmarkLoopStopsAtError(skill, params, bodies, i, acc) ==
    IF i > Len(bodies) THEN acc
    ELSE IF Execute(skill, params, bodies[i]).raised
    THEN [acc EXCEPT !.errors = @ + 1, !.calls = @ + 1]
    ELSE BenchmarkLoopStopsAtError(skill, params, bodies, i + 1,
            [acc EXCEPT !.durations = Append(@, bodies[i].duration),
                        !.calls = @ + 1])

\* the loop of benchmark_skill from iteration i on: the durations of the
\* iterations that returned, the count of those that raised, the calls made
RECURSIVE BenchmarkLoop(_, _, _, _, _)
BenchmarkLoop(skill, params, bodies, i, acc) ==
    IF i > Len(bodies) THEN acc
    ELSE BenchmarkLoop(skill, params, bodies, i + 1,
            IF Execute(skill, params, bodies[i]).raised
            THEN [acc EXCEPT !.errors = @ + 1, !.calls = @ + 1]
            ELSE [acc EXCEPT !.durations = Append(@, bodies[i].duration),
                             !.calls = @ + 1])

\* the statistics record
BenchmarkStats(skill_name, iterations, durations, errors, calls) ==
    [kind |-> "stats", error |-> "", skill |-> skill_name,
     iterations |-> iterations, successful |-> Len(durations), failed |-> errors,
     min_ms |-> Sorted(durations)[1],
     max_ms |-> Sorted(durations)[Len(durations)],
     avg_ms |-> [num |-> Sum(durations), den |-> Len(durations)],
     median_ms |-> Sorted(durations)[Len(durations) \div 2 + 1],
     p95_ms |-> Percentile(durations, 95),
     p99_ms |-> Percentile(durations, 99),
     calls |-> calls]

\* an error result; calls is the number of execute calls made
BenchmarkError(error, calls) == [kind |-> "error", error |-> error, calls |-> calls]

\* faulty variant of benchmark_skill: the statistics are computed whether or
\* not an iteration succeeded, and min() of no duration raises
BenchmarkSkillNoGuard(reg, skill_name, params, bodies) ==
    LET found == RegistryGet(reg, skill_name, Empty)
        loop == BenchmarkLoop(found[1], params, bodies, 1,
                              [durations |-> <<>>, errors |-> 0, calls |-> 0])
    IN IF found = <<>> THEN BenchmarkError("Skill not found", 0)
       ELSE IF loop.durations = <<>>
       THEN [kind |-> "raised", error |-> "ValueError", calls |-> loop.calls]
       ELSE BenchmarkStats(skill_name, Len(bodies), loop.durations, loop.errors,
                           loop.calls)

\* PerformanceTester.benchmark_skill(skill_name, params, iterations), bodies
\* telling for each of the iterations what the skill body does if it is
\* called and the time the iteration takes
BenchmarkSkill(reg, skill_name, params, bodies) ==
    LET found == RegistryGet(reg, skill_name, Empty)
        loop == BenchmarkLoop(found[1], params, bodies, 1,
                              [durations |-> <<>>, errors |-> 0, calls |-> 0])
    IN IF found = <<>> THEN BenchmarkError("Skill not found", 0)
       ELSE IF loop.durations = <<>>
       THEN BenchmarkError("All iterations failed", loop.calls)
       ELSE BenchmarkStats(skill_name, Len(bodies), loop.durations, loop.errors,
                           loop.calls)

\* what one iteration may meet: a body that raises, or returns after a time
IterationOutcomes ==
    {[raises |-> TRUE, output |-> None, duration |-> 0]}
    \cup {[raises |-> FALSE, output |-> PyDict("review"), duration |-> d] :
            d \in {1, 2, 7}}

InitBenchmark ==
    /\ registry = ExampleRegistry
    /\ invocations = <<>>
    /\ int_results = <<>>
    /\ e2e_results = <<>>
    /\ executions = <<>>
    /\ all_results = <<>>
    /\ baseline = <<>>
    /\ \E skill_name \in {NameCr, <<120>>},
          params \in {{}, {<<"code", Str("x")>>}},
          n \in 0..MaxIterations :
       \E bodies \in [1..n -> IterationOutcomes] :
          last = [op |-> "call_benchmark_skill", skill_name |-> skill_name,
                  params |-> params, bodies |-> bodies]

\* tester.benchmark_skill(skill_name, params, iterations)
BenchmarkSkillOp ==
    /\ last.op = "call_benchmark_skill"
    /\ last' = [op |-> "benchmark_skill", skill_name |-> last.skill_name,
                params |-> last.params, bodies |-> last.bodies,
                result |-> BenchmarkSkill(registry, last.skill_name, last.params,
                                          last.bodies)]
    /\ UNCHANGED <<registry, invocations, int_results, e2e_results, executions,
                   all_results, baseline>>

NextBenchmark == BenchmarkSkillOp

SpecBenchmark == InitBenchmark /\ [][NextBenchmark]_vars

\* iteration i of the benchmark raises: the parameters are rejected, or the
\* body raises
IterationRaises(i) ==
    ~ExecuteReturns(registry,
                    [skill_name |-> last.skill_name, skill_version |-> Empty,
                     input_params |-> last.params],
                    last.bodies[i])

\* C15: benchmark_skill on a registered skill with n >= 1 iterations that all
\* raise returns the error result "All iterations failed"; it neither raises
\* nor returns a statistics record.
C15_AllFailedIsExplicitError ==
    (/\ last.op = "benchmark_skill"
     /\ SkillFound(registry, [skill_name |-> last.skill_name, skill_version |-> Empty])
     /\ Len(last.bodies) >= 1
     /\ \A i \in 1..Len(last.bodies) : IterationRaises(i)) =>
        /\ last.result.kind = "error"
        /\ last.result.error = "All iterations failed"
        /\ last.result.calls = Len(last.bodies)

\* three iterations on accepted parameters whose bodies all raised
C15_Witness ==
    /\ last.op = "benchmark_skill"
    /\ last.skill_name = NameCr
    /\ last.params # {}
    /\ Len(last.bodies) = 3
    /\ \A i \in 1..3 : last.bodies[i].raises
    /\ last.result.kind = "error"
    /\ last.result.error = "All iterations failed"

----------------------------------------------------------------------------
(* test_runner.py: ContinuousTestingPipeline *)

\* results.get("regression", {}).get("has_regression") on the results of a run
ReportsRegression(results) ==
    results.regression # <<>> /\ results.regression[1].has_regression

\* run_all_tests(run_unit=True, run_integration=True, run_e2e=False,
\* detect_regression=True), no fixtures given
PreCommitCall == RunnerCall(<<>>, <<>>, <<>>, <<TRUE, TRUE, FALSE, TRUE>>)

\* the same with skills_to_test=[skill_name]
OnChangeCall(skill_name) ==
    RunnerCall(<<<<skill_name>>>>, <<>>, <<>>, <<TRUE, TRUE, FALSE, TRUE>>)

\* run_all_tests(run_unit=True, run_integration=True, run_e2e=True,
\* detect_regression=True), no fixtures given
NightlyCall == RunnerCall(<<>>, <<>>, <<>>, <<TRUE, TRUE, TRUE, TRUE>>)

\* ContinuousTestingPipeline.run_pre_commit_hook after its run: the value returned
RunPreCommitHook(results) ==
    IF ~OverallVerdict(results.all_results) THEN FALSE ELSE TRUE

\* ContinuousTestingPipeline.run_on_skill_change after its run: the value returned
RunOnSkillChange(results) ==
    IF ~OverallVerdict(results.all_results) THEN FALSE
    ELSE IF ReportsRegression(results) THEN FALSE
    ELSE TRUE

\* ContinuousTestingPipeline.run_nightly_tests after its run: the notification sent
RunNightlyTests(results) ==
    IF \/ ComputeOverallMetrics(results.all_results).failed > 0
       \/ ComputeOverallMetrics(results.all_results).errors > 0
    THEN "failure" ELSE "success"

\* the run_all_tests call a gate makes
GateCall(gate) ==
    CASE gate.name = "run_pre_commit_hook" -> PreCommitCall
      [] gate.name = "run_on_skill_change" -> OnChangeCall(gate.arg)
      [] gate.name = "run_nightly_tests" -> NightlyCall

\* what a gate hands back after its run
GateReturn(gate, results) ==
    CASE gate.name = "run_pre_commit_hook" -> RunPreCommitHook(results)
      [] gate.name = "run_on_skill_change" -> RunOnSkillChange(results)
      [] gate.name = "run_nightly_tests" -> RunNightlyTests(results)

\* the registries a pipeline is built on: none of the skills, the review
\* skill alone, the three example skills
GateRegistries ==
    {<<>>, RegisterResult(<<>>, CodeReview(Ver100)).skills, ExampleRegistry}

\* the snapshots a caller accepts as the baseline with save_baseline
AcceptedBaselines ==
    {m \in SnapshotPool : /\ m.total_tests \in {1, 25}
                          /\ m.passed \in {0, 1, 24}
                          /\ m.total_duration_ms \in {0, 2 * m.total_tests}}

\* the names a change is reported for
ChangedSkills == {NameCr, <<114, 102>>, <<120>>}

\* the gates called: the pre-commit hook, the nightly run, and the on-change
\* gate for each of the names
Gates ==
    {[name |-> "run_pre_commit_hook", arg |-> ""],
     [name |-> "run_nightly_tests", arg |-> ""]}
    \cup {[name |-> "run_on_skill_change", arg |-> skill_name] :
             skill_name \in ChangedSkills}

InitGates ==
    /\ registry \in GateRegistries
    /\ invocations = <<>>
    /\ int_results = <<>>
    /\ e2e_results = <<>>
    /\ executions = <<>>
    /\ all_results = <<>>
    /\ baseline = <<>>
    /\ last = [op |-> "init"]

\* RegressionDetector().save_baseline(metrics), the caller accepting a baseline
AcceptBaselineOp(metrics) ==
    /\ baseline' = SaveBaseline(metrics)
    /\ last' = [op |-> "save_baseline", arg |-> metrics]
    /\ UNCHANGED <<registry, invocations, int_results, e2e_results, executions,
                   all_results>>

\* pipeline.run_pre_commit_hook(), pipeline.run_on_skill_change(skill_name) or
\* pipeline.run_nightly_tests(): the run on the pipeline's runner, then the
\* gate's own decision
GateOp(gate) ==
    \E results \in {RunAllTests(registry, baseline, GateCall(gate))} :
        /\ all_results' = results.all_results
        /\ baseline' = results.file
        /\ last' = [op |-> gate.name, arg |-> gate.arg, file_before |-> baseline,
                    raised |-> results.raised,
                    returned |-> GateReturn(gate, results),
                    regression |-> results.regression,
                    metrics |-> results.metrics]
        /\ UNCHANGED <<registry, invocations, int_results, e2e_results, executions>>

NextGates ==
    \/ \E metrics \in AcceptedBaselines : AcceptBaselineOp(metrics)
    \/ \E gate \in Gates : GateOp(gate)

SpecGates == InitGates /\ [][NextGates]_vars

\* C16: the pre-commit gate returns false whenever the ledger of its run holds
\* a Failed or an Error result and whenever the regression detection of that
\* run reports has_regression = true, and true only when neither holds.
C16_PreCommitFailsClosed ==
    (last.op = "run_pre_commit_hook" /\ ~last.raised) =>
        last.returned = (/\ ~HasStatus(all_results, "failed")
                         /\ ~HasStatus(all_results, "error")
                         /\ ~(/\ last.regression # <<>>
                              /\ last.regression[1].has_regression))

----------------------------------------------------------------------------
(* The ledger of a run of the unified runner *)

\* the sequences of a sequence, one after the other
RECURSIVE Flatten(_)
Flatten(seqs) ==
    IF seqs = <<>> THEN <<>> ELSE Head(seqs) \o Flatten(Tail(seqs))

\* the skills a call of run_all_tests targets, in order
TargetSkills(reg, call) ==
    IF call.skills_to_test = <<>> THEN ListAll(reg)
    ELSE Flatten([i \in 1..Len(call.skills_to_test[1]) |->
                     RegistryGet(reg, call.skills_to_test[1][i], Empty)])

\* what each phase of the call contributes when it is enabled and has fixtures
UnitOfCall(reg, call) ==
    IF call.run_unit
    THEN Flatten([i \in 1..Len(TargetSkills(reg, call)) |->
                     UnitRunAllTests(TargetSkills(reg, call)[i])])
    ELSE <<>>

IntegrationOfCall(reg, call) ==
    IF call.run_integration /\ call.integration_tests # <<>>
    THEN [i \in 1..Len(call.integration_tests) |->
             IntRunTestCase(reg, call.integration_tests[i],
                            call.integration_oracles[i].body,
                            call.integration_oracles[i].duration).result]
    ELSE <<>>

E2EOfCall(reg, call) ==
    IF call.run_e2e /\ call.e2e_tests # <<>>
    THEN [i \in 1..Len(call.e2e_tests) |->
             E2ERunTestCase(reg, call.e2e_tests[i], call.e2e_oracles[i].env,
                            call.e2e_oracles[i].duration).result]
    ELSE <<>>

\* C17: when run_all_tests is over, the ledger is the unit results of each
\* target skill in order, then the integration results, then the E2E results
\* of this run (a phase that is disabled or has no fixtures adds nothing) and
\* nothing of an earlier run; the regression phase comes last, its metrics
\* are those of that complete ledger.
C17_LedgerIsThisRunInPhaseOrder ==
    last.op = "run_all_tests" =>
        /\ all_results = UnitOfCall(registry, last.call)
                         \o IntegrationOfCall(registry, last.call)
                         \o E2EOfCall(registry, last.call)
        /\ last.metrics = ComputeOverallMetrics(all_results)
        /\ (last.call.detect_regression /\ ~last.raised) =>
               last.regression = <<DetectRegression(last.file_before,
                                       ComputeOverallMetrics(all_results))>>
        /\ ~last.call.detect_regression =>
               (last.regression = <<>> /\ baseline = last.file_before)

\* a second run on the same runner with all four phases at work, more than one
\* target skill and a baseline to compare with
C17_Witness ==
    /\ last.op = "run_all_tests"
    /\ ~last.ledger_was_empty
    /\ ~last.raised
    /\ last.file_before # <<>>
    /\ Len(TargetSkills(registry, last.call)) > 1
    /\ UnitOfCall(registry, last.call) # <<>>
    /\ IntegrationOfCall(registry, last.call) # <<>>
    /\ E2EOfCall(registry, last.call) # <<>>
    /\ last.regression # <<>>

----------------------------------------------------------------------------
(* One SkillIntegrationTester over a sequence of calls *)

\* the invocation records a suite appends, case after case
RECURSIVE IntSuiteInvocations(_, _, _)
IntSuiteInvocations(reg, test_cases, oracles) ==
    IF test_cases = <<>> THEN <<>>
    ELSE IntRunTestCase(reg, Head(test_cases), Head(oracles).body,
                        Head(oracles).duration).appended
         \o IntSuiteInvocations(reg, Tail(test_cases), Tail(oracles))

\* a case on the review skill that expects the review dict, with the output
\* its body returns
TesterFixture(name, skill_name, raises, output) ==
    [test_case |-> IntegrationTestCase(name, skill_name, Empty,
                       {<<"code", Str("x")>>}, PyDict("review"), "", TRUE),
     oracle |-> [body |-> [raises |-> raises, output |-> output], duration |-> 4]]

\* the cases a tester is given: one that passes, one whose body raises, one on
\* a name nobody registered, one whose body returns an array
TesterFixtures ==
    {TesterFixture("returns", NameCr, FALSE, PyDict("review")),
     TesterFixture("raises", NameCr, TRUE, None),
     TesterFixture("missing", <<120>>, FALSE, None),
     TesterFixture("array", NameCr, FALSE, PyArray)}

TesterSuites ==
    {<<>>} \cup {<<f, g>> : f \in TesterFixtures, g \in TesterFixtures}

\* the cases of a suite whose skill the registry resolves
ResolvedCalls(reg, fixtures) ==
    Cardinality({i \in 1..Len(fixtures) :
                    RegistryGet(reg, fixtures[i].test_case.skill_name,
                                fixtures[i].test_case.skill_version) # <<>>})

\* SkillIntegrationTester.__init__; last.resolved_calls counts the
\* run_test_case calls so far that resolved their skill
InitTester ==
    /\ registry = ExampleRegistry
    /\ invocations = <<>>
    /\ int_results = <<>>
    /\ e2e_results = <<>>
    /\ executions = <<>>
    /\ all_results = <<>>
    /\ baseline = <<>>
    /\ last = [op |-> "init", resolved_calls |-> 0]

\* tester.run_test_case(test_case), called directly
TesterRunTestCaseOp(fixture) ==
    /\ Len(invocations) < MaxInvocations
    /\ \E run \in {IntRunTestCase(registry, fixture.test_case, fixture.oracle.body,
                                  fixture.oracle.duration)} :
          /\ invocations' = invocations \o run.appended
          /\ last' = [op |-> "run_test_case", fixtures |-> <<fixture>>,
                      results |-> <<run.result>>, appended |-> run.appended,
                      resolved_calls |-> last.resolved_calls
                                         + ResolvedCalls(registry, <<fixture>>)]
    /\ UNCHANGED <<registry, int_results, e2e_results, executions, all_results,
                   baseline>>

\* tester.run_test_suite(test_cases)
TesterRunTestSuiteOp(fixtures) ==
    /\ Len(invocations) + Len(fixtures) <= MaxInvocations
    /\ \E suite \in {[test_cases |-> [i \in 1..Len(fixtures) |-> fixtures[i].test_case],
                      oracles |-> [i \in 1..Len(fixtures) |-> fixtures[i].oracle]]} :
          /\ int_results' = IntRunTestSuite(registry, suite.test_cases, suite.oracles)
          /\ invocations' = invocations
                            \o IntSuiteInvocations(registry, suite.test_cases,
                                                   suite.oracles)
          /\ last' = [op |-> "run_test_suite", fixtures |-> fixtures,
                      results |-> IntRunTestSuite(registry, suite.test_cases,
                                                  suite.oracles),
                      appended |-> IntSuiteInvocations(registry, suite.test_cases,
                                                       suite.oracles),
                      resolved_calls |-> last.resolved_calls
                                         + ResolvedCalls(registry, fixtures)]
    /\ UNCHANGED <<registry, e2e_results, executions, all_results, baseline>>

NextTester ==
    \/ \E fixture \in TesterFixtures : TesterRunTestCaseOp(fixture)
    \/ \E fixtures \in TesterSuites : TesterRunTestSuiteOp(fixtures)

SpecTester == InitTester /\ [][NextTester]_vars

\* C18: every run_test_case call that resolves its skill appends exactly one
\* SkillInvocation, with success = true iff execute returned without raising,
\* a call whose skill is not found appends none, and nothing is ever removed:
\* the ledger length is the number of resolved run_test_case calls so far.
C18_OneInvocationPerResolvedCall ==
    /\ Len(invocations) = last.resolved_calls
    /\ last.op = "run_test_case" =>
          LET fixture == last.fixtures[1]
          IN IF ResolvedCalls(registry, last.fixtures) = 0
             THEN last.appended = <<>>
             ELSE /\ Len(last.appended) = 1
                  /\ last.appended[1].success = ~fixture.oracle.body.raises

\* what the tester does keep of C18: records are only appended, each call adds
\* at least one record per resolved case, and run_test_suite starts its result
\* list afresh without touching the records
C18_LedgerOnlyGrows ==
    [][/\ Len(invocations') >= Len(invocations)
       /\ SubSeq(invocations', 1, Len(invocations)) = invocations
       /\ Len(invocations') - Len(invocations)
             >= last'.resolved_calls - last.resolved_calls]_vars

----------------------------------------------------------------------------
(* Integration run_test_case on a skill the registry does not hold *)

\* C19: run_test_case for a case whose skill name, or name and version, is
\* not in the registry returns an Error result, never Passed or Failed,
\* whatever should_succeed says, and no skill body is invoked.
C19_NotFoundIsError ==
    (last.op = "int_run_test_case" /\ ~SkillFound(registry, last.test_case)) =>
        /\ last.result.status = "error"
        /\ ~last.body_invoked
        /\ invocations = <<>>

\* a case that expects a failure, on a registered name in a version nobody
\* registered, with a body that would return
C19_Witness ==
    /\ last.op = "int_run_test_case"
    /\ ~SkillFound(registry, last.test_case)
    /\ \E i \in 1..Len(registry) :
          registry[i].skill.metadata.name = last.test_case.skill_name
    /\ last.test_case.skill_version # Empty
    /\ ~last.test_case.should_succeed
    /\ ~last.body.raises

----------------------------------------------------------------------------
(* integration_test_framework.py: SkillIntegrationTester.test_skill_chaining *)

\* longest chain drawn
MaxChain == 3

NamePipe == <<112>>                \* "p"

\* a skill that takes the output of the skill before it: one optional
\* parameter "input", an implementation
SkillPipe ==
    Skill(SkillMetadata(NamePipe, Ver100, Desc20, Author), <<KeywordRule>>,
          <<SkillParameter("input", "dict", FALSE, None, Desc10, "None")>>,
          "impl", Empty, <<"example">>, <<"red flag">>)

\* the registry of the tester: the review skill and the pipe skill
ChainRegistry ==
    RegisterResult(RegisterResult(<<>>, CodeReview(Ver100)).skills, SkillPipe).skills

\* the for loop of test_skill_chaining from position idx on; bodies[i] is what
\* the body of the skill at position i does if it is called
RECURSIVE ChainLoop(_, _, _, _, _, _)
ChainLoop(reg, skill_chain, idx, current_params, bodies, outputs) ==
    IF idx > Len(skill_chain)
    THEN [status |-> "passed", outputs |-> outputs, executed |-> Len(outputs)]
    ELSE LET found == RegistryGet(reg, skill_chain[idx], Empty)
         IN IF found = <<>>
            THEN [status |-> "error", outputs |-> <<>>, executed |-> idx - 1]
            ELSE LET res == Execute(found[1], current_params, bodies[idx])
                 IN IF res.raised
                    THEN [status |-> "failed", outputs |-> outputs,
                          executed |-> idx]
                    ELSE ChainLoop(reg, skill_chain, idx + 1,
                                   IF idx < Len(skill_chain)
                                   THEN {<<"input", res.output>>}
                                   ELSE current_params,
                                   bodies,
                                   Append(outputs, [skill |-> skill_chain[idx],
                                                    output |-> res.output]))

\* SkillIntegrationTester.test_skill_chaining: the status of the TestResult,
\* the outputs in its details, the number of execute calls made
TestSkillChaining(reg, skill_chain, initial_params, bodies) ==
    ChainLoop(reg, skill_chain, 1, initial_params, bodies, <<>>)

\* the chains drawn: up to MaxChain names, registered or not
RECURSIVE Chains(_)
Chains(n) ==
    IF n = 0 THEN {<<>>}
    ELSE Chains(n - 1)
         \cup {Append(c, name) : c \in {d \in Chains(n - 1) : Len(d) = n - 1},
                                 name \in {NameCr, NamePipe, <<120>>}}

\* what the body at each position does
ChainBodies ==
    [1..MaxChain -> {[raises |-> FALSE, output |-> PyDict("review")],
                     [raises |-> TRUE, output |-> None]}]

InitChaining ==
    /\ registry = ChainRegistry
    /\ invocations = <<>>
    /\ int_results = <<>>
    /\ e2e_results = <<>>
    /\ executions = <<>>
    /\ all_results = <<>>
    /\ baseline = <<>>
    /\ \E skill_chain \in Chains(MaxChain), bodies \in ChainBodies,
          initial_params \in {{}, {<<"code", Str("x")>>}} :
          last = [op |-> "call_test_skill_chaining", skill_chain |-> skill_chain,
                  initial_params |-> initial_params, bodies |-> bodies]

\* tester.test_skill_chaining(skill_chain, initial_params)
TestSkillChainingOp ==
    /\ last.op = "call_test_skill_chaining"
    /\ last' = [op |-> "test_skill_chaining", skill_chain |-> last.skill_chain,
                initial_params |-> last.initial_params, bodies |-> last.bodies,
                result |-> TestSkillChaining(registry, last.skill_chain,
                                             last.initial_params, last.bodies)]
    /\ UNCHANGED <<registry, invocations, int_results, e2e_results, executions,
                   all_results, baseline>>

NextChaining == TestSkillChainingOp

SpecChaining == InitChaining /\ [][NextChaining]_vars

\* the name at position i of the chain is not in the registry
ChainNameMissing(reg, skill_chain, i) ==
    \A k \in 1..Len(reg) : reg[k].skill.metadata.name # skill_chain[i]

\* the invocation at position i raises, given that those before it returned:
\* the first skill gets initial_params, a later one the output before it
ChainInvocationRaises(reg, call, i) ==
    Execute(RegistryGet(reg, call.skill_chain[i], Empty)[1],
            IF i = 1 THEN call.initial_params
            ELSE {<<"input", call.bodies[i - 1].output>>},
            call.bodies[i]).raised

\* C20: test_skill_chaining returns Error if any name in the chain is not in
\* the registry, Failed if every name is present and some invocation raises,
\* and Passed with one output entry per chained skill, in chain order,
\* otherwise.
C20_ChainVerdictAsStated ==
    last.op = "test_skill_chaining" =>
        LET chain == last.skill_chain
            missing == \E i \in 1..Len(chain) : ChainNameMissing(registry, chain, i)
            raises == \E i \in 1..Len(chain) : ChainInvocationRaises(registry, last, i)
        IN IF missing THEN last.result.status = "error"
           ELSE IF raises THEN last.result.status = "failed"
           ELSE /\ last.result.status = "passed"
                /\ Len(last.result.outputs) = Len(chain)
                /\ \A i \in 1..Len(chain) : last.result.outputs[i].skill = chain[i]

\* what test_skill_chaining does keep of C20: the chain is walked in order and
\* the first position that is missing or raises decides, Error for a
\* missing name and Failed for a raising invocation; with neither the result
\* is Passed with one output per skill in chain order
C20_FirstEventDecides ==
    last.op = "test_skill_chaining" =>
        LET chain == last.skill_chain
            Stops(i) == \/ ChainNameMissing(registry, chain, i)
                        \/ ChainInvocationRaises(registry, last, i)
            stops == {i \in 1..Len(chain) : Stops(i)}
        IN IF stops = {}
           THEN /\ last.result.status = "passed"
                /\ Len(last.result.outputs) = Len(chain)
                /\ \A i \in 1..Len(chain) : last.result.outputs[i].skill = chain[i]
           ELSE LET first == Least(stops)
                IN last.result.status =
                      IF ChainNameMissing(registry, chain, first)
                      THEN "error" ELSE "failed"

----------------------------------------------------------------------------
(* Registry lookup *)

\* the positions of the registry holding a skill of the name
PositionsOfName(reg, name) ==
    {i \in 1..Len(reg) : reg[i].skill.metadata.name = name}

----------------------------------------------------------------------------
(* provisioning failure of an E2E case *)

\* C22: if workspace provisioning fails for an E2E case, the case result is
\* Error (not Failed), the setup hook is not run, and no workflow step is
\* invoked.
C22_ProvisionFailureIsError ==
    (last.op = "e2e_run_test_case" /\ ~last.env.provision_ok)
        => /\ last.result.status = "error"
           /\ CountEvents(last.events, "setup_hook") = 0
           /\ CountEvents(last.events, "lookup") = 0
           /\ CountEvents(last.events, "execute") = 0
           /\ CountEvents(last.events, "step_validation") = 0
           /\ last.execution.steps_completed = <<>>
           /\ last.execution.steps_failed = <<>>
           /\ last.execution.outputs = {}

\* provisioning failed for a case that declares a setup hook and two steps
C22_Witness ==
    /\ last.op = "e2e_run_test_case"
    /\ ~last.env.provision_ok
    /\ last.test_case.setup_func
    /\ Len(last.test_case.workflow) = 2
    /\ last.result.status = "error"
    /\ CountEvents(last.events, "provision") = 1

----------------------------------------------------------------------------
(* _validate_output as a function of the output, the expected value and the *)
(* expected type tag                                                         *)

\* outputs and expected values: None, a str, two dicts, the numbers 1 (as
\* int, float and bool) and 2, and a value whose comparison raises
OutputValues ==
    {None, Str("x"), PyDict("review"), PyDict("other"), PyInt("1"),
     PyFloat("1.0"), PyBool("True"), PyInt("2"), PyArray}

\* "" for no tag
TypeTags == {"", "dict", "str", "int", "float", "bool", "NoneType"}

InitValidateOutput ==
    /\ registry = ExampleRegistry
    /\ invocations = <<>>
    /\ int_results = <<>>
    /\ e2e_results = <<>>
    /\ executions = <<>>
    /\ all_results = <<>>
    /\ baseline = <<>>
    /\ \E actual \in OutputValues, expected \in OutputValues, tag \in TypeTags :
          last = [op |-> "call_validate_output", actual |-> actual,
                  expected |-> expected, expected_type |-> tag]

\* tester._validate_output(actual, expected, expected_type)
ValidateOutputOp ==
    /\ last.op = "call_validate_output"
    /\ last' = [op |-> "validate_output", actual |-> last.actual,
                expected |-> last.expected, expected_type |-> last.expected_type,
                result |-> ValidateOutput(last.actual, last.expected,
                                          last.expected_type)]
    /\ UNCHANGED <<registry, invocations, int_results, e2e_results, executions,
                   all_results, baseline>>

NextValidateOutput == ValidateOutputOp

SpecValidateOutput == InitValidateOutput /\ [][NextValidateOutput]_vars

\* C23: integration output matching accepts an output if and only if (an
\* expected type tag is declared implies the output's runtime type name equals
\* it exactly) and (an expected value is declared implies the output equals
\* it); when both are declared both must hold, and when neither is declared
\* every returned output is accepted. Equality is the == of the language: 1,
\* 1.0 and True are equal, and a comparison that raises finds nothing equal.
C23_AcceptsIffTypeAndValue ==
    last.op = "validate_output" =>
        LET accepted == ~last.result.raised /\ last.result.valid
            tagged == last.expected_type # ""
            valued == last.expected.type # "NoneType"
            type_ok == last.actual.type = last.expected_type
            value_ok ==
                /\ last.actual.type # "ndarray"
                /\ last.expected.type # "ndarray"
                /\ \/ /\ IsNumber(last.actual)
                      /\ IsNumber(last.expected)
                      /\ NumberValue(last.actual) = NumberValue(last.expected)
                   \/ last.actual = last.expected
        IN /\ accepted <=> ((tagged => type_ok) /\ (valued => value_ok))
           /\ (tagged /\ valued /\ accepted) => (type_ok /\ value_ok)
           /\ (~tagged /\ ~valued) => accepted

\* the tag int and the value 1.0 are declared and the output 1 is accepted
C23_Witness ==
    /\ last.op = "validate_output"
    /\ last.expected_type = "int"
    /\ last.expected = PyFloat("1.0")
    /\ last.actual = PyInt("1")
    /\ last.result.valid
    /\ ~last.result.raised

----------------------------------------------------------------------------
(* the on-change gate *)

\* C24: the on-change gate run_on_skill_change(name) is scoped to the named
\* skill: its unit phase checks only the skill that registry get(name)
\* resolves to and no other registered skill, the E2E phase never runs (the
\* ledger holds the unit results of that skill and nothing else), and the
\* gate returns true if and only if the run's ledger contains no Failed or
\* Error result and regression detection does not report a regression.
C24_OnChangeScopedAndClosed ==
    (last.op = "run_on_skill_change" /\ ~last.raised) =>
        LET found == RegistryGet(registry, last.arg, Empty)
        IN /\ all_results = (IF found = <<>> THEN <<>>
                             ELSE UnitRunAllTests(found[1]))
           /\ last.returned =
                 (/\ \A i \in 1..Len(all_results) :
                        all_results[i].status \notin {"failed", "error"}
                  /\ \/ last.regression = <<>>
                     \/ ~last.regression[1].has_regression)

\* the gate ran for the review skill on a registry that holds other skills
\* too, and returned true
C24_Witness ==
    /\ last.op = "run_on_skill_change"
    /\ ~last.raised
    /\ last.arg = NameCr
    /\ Len(registry) = 3
    /\ Len(all_results) = Len(UnitRunAllTests(CodeReview(Ver100)))
    /\ last.returned

----------------------------------------------------------------------------
(* the summaries of the testers and the metrics of the runner, as functions *)
(* of the ledger they are computed from                                      *)

MaxLedger == 3

\* ledgers by their counts of Passed, Failed and Error results; with 32
\* results the rates 3.125 and 9.375 lie halfway between two hundredths
LedgerShapes == {<<1, 31, 0>>, <<3, 28, 1>>, <<2, 3, 2>>, <<0, 0, 6>>}

\* the ledgers summarised: every ledger of up to MaxLedger results, and one
\* ledger of each shape
SummaryLedgers ==
    {[i \in DOMAIN st |-> TestResult("t", st[i], "", 2)] :
        st \in UNION {[1..n -> {"passed", "failed", "error"}] : n \in 0..MaxLedger}}
    \cup {[i \in 1..(c[1] + c[2] + c[3]) |->
              TestResult("t", IF i <= c[1] THEN "passed"
                              ELSE IF i <= c[1] + c[2] THEN "failed" ELSE "error",
                         "", 2)] : c \in LedgerShapes}

InitSummary ==
    /\ registry = ExampleRegistry
    /\ invocations = <<>>
    /\ int_results = <<>>
    /\ e2e_results = <<>>
    /\ executions = <<>>
    /\ all_results = <<>>
    /\ baseline = <<>>
    /\ \E ledger \in SummaryLedgers :
          last = [op |-> "call_get_summary", results |-> ledger]

\* get_summary() of a unit tester, an integration tester or an E2E runner
\* whose results are the ledger, and _compute_overall_metrics of a runner
\* whose all_results are
GetSummaryOp(of) ==
    /\ last.op = "call_get_summary"
    /\ last' = [op |-> "get_summary", of |-> of, results |-> last.results,
                summary |->
                    CASE of = "unit" -> UnitGetSummary(last.results)
                      [] of = "integration" ->
                            IntGetSummary(last.results, invocations)
                      [] of = "e2e" -> E2EGetSummary(last.results, executions)
                      [] of = "runner" ->
                            [total |-> ComputeOverallMetrics(last.results).total_tests]
                            @@ ComputeOverallMetrics(last.results)]
    /\ UNCHANGED <<registry, invocations, int_results, e2e_results, executions,
                   all_results, baseline>>

NextSummary ==
    \E of \in {"unit", "integration", "e2e", "runner"} : GetSummaryOp(of)

SpecSummary == InitSummary /\ [][NextSummary]_vars

\* C25: every tester summary and the runner's aggregate metrics report total =
\* number of results in the ledger, passed/failed/errors = the number of
\* results with that status, and a pass rate equal to passed/total as a
\* percentage (to the nearest hundredth); when total is 0 the pass rate is 0%
\* and no division by zero occurs.
C25_SummaryCounts ==
    last.op = "get_summary" =>
        LET Count(status) ==
                Cardinality({i \in DOMAIN last.results :
                                last.results[i].status = status})
            s == last.summary
            off == s.pass_rate * s.total - 10000 * s.passed
        IN /\ s.total = Len(last.results)
           /\ s.passed = Count("passed")
           /\ s.failed = Count("failed")
           /\ s.errors = Count("error")
           /\ s.total > 0 => (2 * off <= s.total /\ -2 * off <= s.total)
           /\ s.total = 0 => s.pass_rate = 0

\* the metrics of a runner over a ledger of three results of which two
\* passed: 66.67%
C25_Witness ==
    /\ last.op = "get_summary"
    /\ last.of = "runner"
    /\ last.summary.total = 3
    /\ last.summary.passed = 2
    /\ last.summary.pass_rate = 6667

----------------------------------------------------------------------------
(* the step lists of an execution record *)

\* the declared step names of the case run last
StepNamesOf(test_case) ==
    [i \in 1..Len(test_case.workflow) |-> test_case.workflow[i].name]

\* the step the workflow reached last: one lookup per step, then its call
LastStepReached(events) ==
    CountEvents(events, "lookup") + CountEvents(events, "execute")

\* C26: when an E2E workflow aborts at step k, the execution record lists
\* exactly the steps before k, in declared order, in steps_completed and
\* exactly step k in steps_failed; when the workflow completes,
\* steps_completed is the full declared step list and steps_failed is empty.
\* In every case no step name appears in both lists.
C26_StepListsAsStated ==
    (last.op = "e2e_run_test_case" /\ last.env.provision_ok /\ ~last.env.setup_raises)
        => LET names == StepNamesOf(last.test_case)
               k == LastStepReached(last.events)
               completed == last.execution.steps_completed
               failed == last.execution.steps_failed
           IN /\ last.result.message = "Workflow failed"
                    => /\ completed = SubSeq(names, 1, k - 1)
                       /\ failed = <<names[k]>>
              /\ last.result.message # "Workflow failed"
                    => /\ completed = names
                       /\ failed = <<>>
              /\ \A i \in 1..Len(completed), j \in 1..Len(failed) :
                    completed[i] # failed[j]

\* what _execute_workflow does record when it aborts at step k: a step whose
\* execute raised is in steps_failed alone, after the steps before it; a step
\* whose skill is not registered is in neither list; a step whose
\* validation_func returned false or raised is in both lists. A workflow that
\* completes lists every step as completed and none as failed.
C26_StepListsAsRecorded ==
    (last.op = "e2e_run_test_case" /\ last.env.provision_ok /\ ~last.env.setup_raises)
        => LET names == StepNamesOf(last.test_case)
               k == LastStepReached(last.events)
               completed == last.execution.steps_completed
               failed == last.execution.steps_failed
           IN IF last.result.message # "Workflow failed"
              THEN completed = names /\ failed = <<>>
              ELSE CASE last.events[Len(last.events)
                                    - (IF last.test_case.teardown_func THEN 2 ELSE 1)].kind
                            = "lookup"
                          -> completed = SubSeq(names, 1, k - 1) /\ failed = <<>>
                     [] last.events[Len(last.events)
                                    - (IF last.test_case.teardown_func THEN 2 ELSE 1)].kind
                            = "execute"
                          -> completed = SubSeq(names, 1, k - 1) /\ failed = <<names[k]>>
                     [] OTHER
                          -> completed = SubSeq(names, 1, k) /\ failed = <<names[k]>>

----------------------------------------------------------------------------
(* the workflow counts of the E2E summary *)

\* C27: after run_test_case calls on an E2E runner the summary's
\* total_workflows equals the number of cases attempted (every attempted case
\* is counted, whether it ended Passed, Failed at a workflow step, Failed at
\* outcome validation, or Error) and successful_workflows equals the number of
\* those cases that ended Passed. Here: one case attempted on a fresh runner.
C27_WorkflowsCountAttempts ==
    last.op = "e2e_run_test_case" =>
        /\ E2EGetSummary(e2e_results, executions).total_workflows = 1
        /\ E2EGetSummary(e2e_results, executions).successful_workflows
              = (IF last.result.status = "passed" THEN 1 ELSE 0)

\* what the summary does count: the cases that ended Passed, Failed at
\* outcome validation or Error; a case that failed at a workflow step leaves
\* no execution record in the runner
C27_WorkflowsAsCounted ==
    last.op = "e2e_run_test_case" =>
        /\ E2EGetSummary(e2e_results, executions).total_workflows
              = (IF last.result.message = "Workflow failed" THEN 0 ELSE 1)
        /\ E2EGetSummary(e2e_results, executions).successful_workflows
              = (IF last.result.status = "passed" THEN 1 ELSE 0)

----------------------------------------------------------------------------
(* the improvements of a regression result *)

\* C28: detect_regression reports improvements only in a result with
\* has_regression = false: when no regression condition triggers, the
\* improvements list contains a pass_rate entry if and only if the current
\* pass-rate exceeds the baseline pass-rate by more than 2 percentage points;
\* when any regression condition triggers, no improvements are reported.
C28_ImprovementsAsStated ==
    (last.op = "detect_regression" /\ baseline # <<>> /\ ~last.result.raised) =>
        /\ last.result.has_regression => last.result.improvements = <<>>
        /\ ~last.result.has_regression =>
              ((\E i \in 1..Len(last.result.improvements) :
                    last.result.improvements[i].metric = "pass_rate")
               <=> last.current.pass_rate > baseline[1].pass_rate + 200)

\* what detect_regression does report: improvements only without a
\* regression, a pass_rate entry for every rise of more than 2 points and for
\* none below 2 points; a rise of exactly 2.00 points is reported or not as
\* the doubles of the two rates decide
C28_ImprovementsAsComputed ==
    (last.op = "detect_regression" /\ baseline # <<>> /\ ~last.result.raised) =>
        /\ last.result.has_regression => last.result.improvements = <<>>
        /\ ~last.result.has_regression =>
              /\ last.current.pass_rate > baseline[1].pass_rate + 200
                    => Len(last.result.improvements) = 1
              /\ last.current.pass_rate < baseline[1].pass_rate + 200
                    => last.result.improvements = <<>>

----------------------------------------------------------------------------
(* the statistics of a benchmark *)

\* x is the k-th smallest of the durations ds
AtRank(x, ds, k) ==
    /\ \E i \in 1..Len(ds) : ds[i] = x
    /\ Cardinality({i \in 1..Len(ds) : ds[i] < x}) < k
    /\ Cardinality({i \in 1..Len(ds) : ds[i] <= x}) >= k

\* C29: benchmark_skill with N iterations performs exactly N execute calls
\* (on a skill that is registered): an iteration that raises increments the
\* error counter and does not stop the loop; whenever a statistics record is
\* returned, successful + failed = N, successful >= 1, and
\* min/max/mean/median/p95/p99 are computed over the durations of the
\* successful iterations only (the percentile indices always fall inside the
\* list of successful durations).
C29_BenchmarkCountsAndStats ==
    (last.op = "benchmark_skill" /\ RegistryGet(registry, last.skill_name, Empty) # <<>>)
        => LET n == Len(last.bodies)
               skill == RegistryGet(registry, last.skill_name, Empty)[1]
               returned == {i \in 1..n :
                               ~Execute(skill, last.params, last.bodies[i]).raised}
               ds == SelectSeq([i \in 1..n |->
                                   IF i \in returned THEN last.bodies[i].duration
                                   ELSE -1],
                               LAMBDA d : d >= 0)
               r == last.result
               m == Len(ds)
           IN /\ r.calls = n
              /\ r.kind = "stats" <=> returned # {}
              /\ r.kind = "stats" =>
                    /\ r.successful = m
                    /\ r.failed = n - m
                    /\ r.successful + r.failed = n
                    /\ r.successful >= 1
                    /\ AtRank(r.min_ms, ds, 1)
                    /\ AtRank(r.max_ms, ds, m)
                    /\ r.avg_ms = [num |-> Sum(ds), den |-> m]
                    /\ AtRank(r.median_ms, ds, m \div 2 + 1)
                    /\ (95 * m) \div 100 + 1 <= m
                    /\ AtRank(r.p95_ms, ds, (95 * m) \div 100 + 1)
                    /\ (99 * m) \div 100 + 1 <= m
                    /\ AtRank(r.p99_ms, ds, (99 * m) \div 100 + 1)

\* three iterations of which the first raised and the others returned
C29_Witness ==
    /\ last.op = "benchmark_skill"
    /\ Len(last.bodies) = 3
    /\ last.bodies[1].raises
    /\ last.result.kind = "stats"
    /\ last.result.calls = 3
    /\ last.result.successful = 2
    /\ last.result.failed = 1
    /\ last.result.min_ms < last.result.max_ms

----------------------------------------------------------------------------
(* validate as a function of the skill *)

\* parameter lists: none, a required one without default, required ones with
\* a default (one of them the empty str), an optional one with a default
ValidateParameterLists ==
    {<<>>, <<CodeParam>>, <<LanguageParam>>,
     <<SkillParameter("code", "str", TRUE, Str(""), Desc10, "None")>>,
     <<SkillParameter("code", "str", TRUE, Str("x"), Desc10, "None"),
       LanguageParam,
       SkillParameter("depth", "int", TRUE, PyInt("0"), Desc10, "None")>>}

\* the skills validated: every choice of present and absent parts
ValidateSkills ==
    {Skill(SkillMetadata(n, v, d, Author), t, ps, impl, tmpl, <<>>, <<>>) :
        n \in {Empty, NameCr}, v \in {Empty, Ver100}, d \in {Empty, Desc20},
        t \in {<<>>, <<KeywordRule>>}, ps \in ValidateParameterLists,
        impl \in {"None", "impl"}, tmpl \in {Empty, Tmpl}}

InitValidate ==
    /\ registry = <<>>
    /\ invocations = <<>>
    /\ int_results = <<>>
    /\ e2e_results = <<>>
    /\ executions = <<>>
    /\ all_results = <<>>
    /\ baseline = <<>>
    /\ \E skill \in ValidateSkills : last = [op |-> "call_validate", skill |-> skill]

\* skill.validate()
ValidateOp ==
    /\ last.op = "call_validate"
    /\ last' = [op |-> "validate", skill |-> last.skill,
                errors |-> Validate(last.skill)]
    /\ UNCHANGED <<registry, invocations, int_results, e2e_results, executions,
                   all_results, baseline>>

NextValidate == ValidateOp

SpecValidate == InitValidate /\ [][NextValidate]_vars

\* C30: validate(skill) returns an empty error list if and only if the
\* skill's name, version and description are all non-empty, it has at least
\* one trigger, no required parameter carries a default value, and it has an
\* implementation or a non-empty textual template; otherwise it returns one
\* error per violated condition (one per offending required parameter).
C30_ValidateErrors ==
    last.op = "validate" =>
        LET skill == last.skill
            errors == last.errors
            Has(text) == \E i \in 1..Len(errors) : errors[i][1] = text
            offending == {i \in 1..Len(skill.parameters) :
                             /\ skill.parameters[i].required
                             /\ skill.parameters[i].default.type # "NoneType"}
            violated ==
                (IF skill.metadata.name = <<>> THEN 1 ELSE 0)
                + (IF skill.metadata.version = <<>> THEN 1 ELSE 0)
                + (IF skill.metadata.description = <<>> THEN 1 ELSE 0)
                + (IF skill.triggers = <<>> THEN 1 ELSE 0)
                + Cardinality(offending)
                + (IF skill.implementation = "None" /\ skill.prompt_template = <<>>
                   THEN 1 ELSE 0)
        IN /\ errors = <<>> <=> violated = 0
           /\ Len(errors) = violated
           /\ Has("Skill name is required") <=> skill.metadata.name = <<>>
           /\ Has("Skill version is required") <=> skill.metadata.version = <<>>
           /\ Has("Skill description is required")
                 <=> skill.metadata.description = <<>>
           /\ Has("At least one trigger rule is required") <=> skill.triggers = <<>>
           /\ Has("Either implementation or prompt_template is required")
                 <=> (skill.implementation = "None" /\ skill.prompt_template = <<>>)
           /\ \A i \in 1..Len(skill.parameters) :
                 i \in offending
                    <=> \E k \in 1..Len(errors) :
                           errors[k] = <<"Required parameter cannot have default value",
                                         skill.parameters[i].name>>

\* a skill that violates every condition, two of its parameters offending
C30_Witness ==
    /\ last.op = "validate"
    /\ last.skill.metadata.name = <<>>
    /\ Len(last.skill.parameters) = 3
    /\ last.skill.implementation = "None"
    /\ Len(last.errors) = 7

----------------------------------------------------------------------------
(* integration_test_framework.py: test_parameter_validation *)

PyList(x) == [type |-> "list", repr |-> x]

\* SkillIntegrationTester._get_default_value
GetDefaultValue(type_name) ==
    CASE type_name = "str" -> Str("")
      [] type_name = "int" -> PyInt("0")
      [] type_name = "float" -> PyFloat("0.0")
      [] type_name = "bool" -> PyBool("False")
      [] type_name = "list" -> PyList("[]")
      [] type_name = "dict" -> PyDict("{}")
      [] OTHER -> None

\* the value of the wrong type a probe passes for a parameter of that type
InvalidValue(type_name) ==
    CASE type_name = "str" -> PyInt("12345")
      [] type_name = "int" -> Str("not_an_int")
      [] type_name = "list" -> Str("not_a_list")

\* the arguments of the probe of a parameter: its invalid value, and the
\* default of its type for every other required parameter
ProbeParams(skill, param) ==
    {<<param.name, InvalidValue(param.type)>>}
    \cup {<<skill.parameters[j].name, GetDefaultValue(skill.parameters[j].type)>> :
            j \in {k \in 1..Len(skill.parameters) :
                      /\ skill.parameters[k].required
                      /\ skill.parameters[k].name # param.name}}

\* the type probes of test_parameter_validation from parameter i on, the
\* first three parameters at most; bodies[i] is what the implementation does
\* if the probe of parameter i reaches it
RECURSIVE TypeProbes(_, _, _)
TypeProbes(skill, bodies, i) ==
    IF i > Len(skill.parameters) \/ i > 3 THEN <<>>
    ELSE
    LET param == skill.parameters[i]
        res == Execute(skill, ProbeParams(skill, param), bodies[i])
        Probe(status) ==
            <<[test_name |-> <<"test_param_type_validation", param.name>>,
               status |-> status, param |-> i, raised |-> res.raised,
               errors |-> res.errors, body_invoked |-> res.body_invoked]>>
    IN (IF param.type \notin {"str", "int", "list"} THEN <<>>
        ELSE IF res.raised THEN Probe("passed")
        ELSE IF param.validation # "None" THEN Probe("failed")
        ELSE <<>>)
       \o TypeProbes(skill, bodies, i + 1)

\* SkillIntegrationTester.test_parameter_validation: the results returned;
\* zero_body is what the implementation does if the call without arguments
\* reaches it. An exception of that call other than ValueError and TypeError
\* leaves the method.
TestParameterValidation(reg, skill_name, zero_body, bodies) ==
    LET found == RegistryGet(reg, skill_name, Empty)
    IN IF found = <<>>
       THEN [raised |-> FALSE,
             results |-> <<[test_name |-> <<"test_parameter_validation", "">>,
                            status |-> "error", param |-> 0, raised |-> FALSE,
                            errors |-> <<>>, body_invoked |-> FALSE]>>]
       ELSE
       LET skill == found[1]
           required_params == {i \in 1..Len(skill.parameters) :
                                  skill.parameters[i].required}
           zero == Execute(skill, {}, zero_body)
           Missing(status) ==
               <<[test_name |-> <<"test_missing_required_params", "">>,
                  status |-> status, param |-> 0, raised |-> zero.raised,
                  errors |-> zero.errors, body_invoked |-> zero.body_invoked]>>
       IN IF required_params # {} /\ zero.raised /\ zero.exc \notin {"ValueError", "TypeError"}
          THEN [raised |-> TRUE, results |-> <<>>]
          ELSE [raised |-> FALSE,
                results |->
                    (IF required_params = {} THEN <<>>
                     ELSE IF zero.raised THEN Missing("passed")
                     ELSE Missing("failed"))
                    \o TypeProbes(skill, bodies, 1)]

\* a skill without required parameters: an int with a validator that takes
\* any non-empty value (lambda x: len(x) > 0), a list, a dict
Counter ==
    Skill(SkillMetadata(<<99, 110>>, Ver100, Desc20, Author),
          <<KeywordRule>>,
          <<SkillParameter("count", "int", FALSE, None, Desc10, "non_empty"),
            SkillParameter("items", "list", FALSE, None, Desc10, "None"),
            SkillParameter("flags", "dict", FALSE, None, Desc10, "None")>>,
          "impl", Tmpl, <<>>, <<>>)

\* the example skills and that one
ProbeRegistry == RegisterResult(ExampleRegistry, Counter).skills

\* what the implementation does when a call reaches it
ProbeBodies ==
    {[raises |-> TRUE, output |-> None], [raises |-> FALSE, output |-> PyDict("out")]}

InitParameterValidation ==
    /\ registry = ProbeRegistry
    /\ invocations = <<>>
    /\ int_results = <<>>
    /\ e2e_results = <<>>
    /\ executions = <<>>
    /\ all_results = <<>>
    /\ baseline = <<>>
    /\ \E skill_name \in {NameCr, NameTg, <<114, 102>>, <<99, 110>>, <<120>>},
          zero_body \in ProbeBodies, bodies \in [1..3 -> ProbeBodies] :
          last = [op |-> "call_test_parameter_validation",
                  skill_name |-> skill_name, zero_body |-> zero_body,
                  bodies |-> bodies]

\* tester.test_parameter_validation(skill_name)
TestParameterValidationOp ==
    /\ last.op = "call_test_parameter_validation"
    /\ \E run \in {TestParameterValidation(registry, last.skill_name,
                                           last.zero_body, last.bodies)} :
          last' = [op |-> "test_parameter_validation",
                   skill_name |-> last.skill_name, zero_body |-> last.zero_body,
                   bodies |-> last.bodies, raised |-> run.raised,
                   results |-> run.results]
    /\ UNCHANGED <<registry, invocations, int_results, e2e_results, executions,
                   all_results, baseline>>

NextParameterValidation == TestParameterValidationOp

SpecParameterValidation == InitParameterValidation /\ [][NextParameterValidation]_vars

\* C31: test_parameter_validation(skill_name): when the skill has at least
\* one required parameter, the zero-parameter invocation yields Passed iff
\* execute rejects it and Failed iff execute returns; and for each of the
\* first three declared parameters with a str, int or list type tag, the
\* type-mismatch probe yields a Failed result only if that parameter declares
\* a custom validator and execute nevertheless returned, and a Passed result
\* only if the probed parameter's own validator rejected the mismatched value.
C31_ProbesAsStated ==
    (last.op = "test_parameter_validation"
     /\ RegistryGet(registry, last.skill_name, Empty) # <<>>) =>
        LET skill == RegistryGet(registry, last.skill_name, Empty)[1]
            results == last.results
            required == {i \in 1..Len(skill.parameters) : skill.parameters[i].required}
        IN /\ ~last.raised
           /\ required # {} =>
                 /\ results # <<>>
                 /\ results[1].test_name[1] = "test_missing_required_params"
                 /\ results[1].status = "passed" <=> results[1].raised
                 /\ results[1].status = "failed" <=> ~results[1].raised
           /\ \A k \in 1..Len(results) :
                 results[k].param > 0 =>
                    /\ results[k].param <= 3
                    /\ skill.parameters[results[k].param].type \in {"str", "int", "list"}
                    /\ results[k].status = "failed" =>
                          /\ skill.parameters[results[k].param].validation # "None"
                          /\ ~results[k].raised
                    /\ results[k].status = "passed" =>
                          \E e \in 1..Len(results[k].errors) :
                             /\ results[k].errors[e].kind = "validation"
                             /\ skill.parameters[results[k].param].name
                                   \in results[k].errors[e].names

\* what the probes do report: Passed whenever the probing call raised, for
\* whatever reason (the validator of another parameter rejecting the default
\* it was filled with, or the implementation raising on the value); Failed
\* when the call returned and the probed parameter has a validator; nothing
\* when it returned and has none
C31_ProbesAsRun ==
    (last.op = "test_parameter_validation"
     /\ RegistryGet(registry, last.skill_name, Empty) # <<>>) =>
        LET skill == RegistryGet(registry, last.skill_name, Empty)[1]
            results == last.results
            required == {i \in 1..Len(skill.parameters) : skill.parameters[i].required}
        IN /\ ~last.raised
           /\ required # {} =>
                 /\ results # <<>>
                 /\ results[1].test_name[1] = "test_missing_required_params"
                 /\ results[1].status = "passed"
                 /\ ~results[1].body_invoked
           /\ \A k \in 1..Len(results) :
                 results[k].param > 0 =>
                    /\ results[k].param <= 3
                    /\ skill.parameters[results[k].param].type \in {"str", "int", "list"}
                    /\ results[k].status = "passed" <=> results[k].raised
                    /\ results[k].status = "failed" <=>
                          /\ ~results[k].raised
                          /\ skill.parameters[results[k].param].validation # "None"

----------------------------------------------------------------------------
(* find_by_trigger and the automatic trigger *)

\* "au": two automatic rules and nothing else
AutoOnly ==
    Skill(SkillMetadata(<<97, 117>>, Ver100, Desc20, Author),
          <<AutoRule, TriggerRule("auto", Empty, 50, {<<"action", Str("review")>>})>>,
          <<CodeParam>>, "impl", Tmpl, <<>>, <<>>)

\* "mx": an automatic rule and a keyword rule
AutoAndKeyword ==
    Skill(SkillMetadata(<<109, 120>>, Ver100, Desc20, Author),
          <<AutoRule, KeywordRule>>, <<CodeParam>>, "impl", Tmpl, <<>>, <<>>)

\* registries that hold skills with automatic rules only
FindRegistries ==
    {RegisterResult(<<>>, AutoOnly).skills,
     RegisterResult(RegisterResult(ExampleRegistry, AutoOnly).skills, SkillAB).skills,
     RegisterResult(RegisterResult(RegisterResult(<<>>, SkillAB).skills,
                                   AutoAndKeyword).skills, AutoOnly).skills}

InitFindByTrigger ==
    /\ registry \in FindRegistries
    /\ invocations = <<>>
    /\ int_results = <<>>
    /\ e2e_results = <<>>
    /\ executions = <<>>
    /\ all_results = <<>>
    /\ baseline = <<>>
    /\ \E input_text \in InputTexts, context \in Contexts :
          last = [op |-> "call_find_by_trigger", input_text |-> input_text,
                  context |-> context]

\* registry.find_by_trigger(input_text, context), and skill.can_trigger of
\* every stored skill on the same input
FindByTriggerOp ==
    /\ last.op = "call_find_by_trigger"
    /\ last' = [op |-> "find_by_trigger", input_text |-> last.input_text,
                context |-> last.context,
                result |-> FindByTrigger(registry, last.input_text, last.context),
                can_trigger |-> [i \in 1..Len(registry) |->
                                    CanTrigger(registry[i].skill, last.input_text,
                                               last.context)]]
    /\ UNCHANGED <<registry, invocations, int_results, e2e_results, executions,
                   all_results, baseline>>

NextFindByTrigger == FindByTriggerOp

SpecFindByTrigger == InitFindByTrigger /\ [][NextFindByTrigger]_vars

\* the triggers of the skill are all automatic rules
AllAuto(skill) ==
    /\ skill.triggers # <<>>
    /\ \A t \in 1..Len(skill.triggers) : skill.triggers[t].condition_type = "auto"

\* C37: a trigger rule whose condition type is automatic (AUTO) matches no
\* input and no context: a skill whose triggers are all AUTO rules never
\* activates (can_trigger is false for every input and context) and is never
\* returned by find_by_trigger, although it passes validate and can be
\* registered.
C37_AutoNeverTriggers ==
    last.op = "find_by_trigger" =>
        \A i \in 1..Len(registry) :
            AllAuto(registry[i].skill) =>
                /\ ~last.can_trigger[i]
                /\ \A k \in 1..Len(last.result) : last.result[k] # registry[i].skill
                /\ Validate(registry[i].skill) = <<>>
                /\ ~RegisterResult(<<>>, registry[i].skill).raised

\* the input "ab" is the pattern of the automatic rules of two stored skills;
\* the one skill returned is the one that also has a keyword rule
C37_Witness ==
    /\ last.op = "find_by_trigger"
    /\ last.input_text = PatAb
    /\ \E i \in 1..Len(registry) : registry[i].skill = AutoOnly
    /\ \E i \in 1..Len(registry) : registry[i].skill = SkillAB
    /\ last.result = <<AutoAndKeyword>>

----------------------------------------------------------------------------
(* detect_regression on the snapshots of the unified runner *)

\* C33: detect_regression returns a result and never raises for every pair of
\* baseline and current snapshots that the unified runner can produce, in
\* particular for a baseline whose avg_duration_ms is 0 (as saved by a first
\* run whose ledger holds only unit results, all of duration 0) followed by a
\* run whose avg_duration_ms is greater than 0.
C33_DetectNeverRaises ==
    (last.op = "run_all_tests" /\ last.call.detect_regression) => ~last.raised

\* when the regression phase of a run does raise: exactly when the baseline
\* mean is 0 and the current mean is above it
C33_RaisesOnZeroBaselineMean ==
    (last.op = "run_all_tests" /\ last.call.detect_regression) =>
        (last.raised <=> /\ last.file_before # <<>>
                         /\ last.file_before[1].avg_duration_ms.num = 0
                         /\ last.metrics.avg_duration_ms.num > 0)

----------------------------------------------------------------------------
(* the unit tester on the skills a registry holds *)

\* SkillUnitTester(skill).run_all_tests() for the i-th stored skill
UnitTestStoredOp(i) ==
    /\ i \in 1..Len(registry)
    /\ last' = [op |-> "unit_run_all_tests", skill |-> registry[i].skill,
                results |-> UnitRunAllTests(registry[i].skill)]
    /\ UNCHANGED <<registry, invocations, int_results, e2e_results, executions,
                   all_results, baseline>>

NextUnitOfStored ==
    \/ \E skill \in RegisterPool : Register(skill)
    \/ \E i \in 1..MaxRegistry : UnitTestStoredOp(i)

SpecUnitOfStored == InitEmpty /\ [][NextUnitOfStored]_vars

\* C35: for every skill stored in the registry and not modified after
\* registration, the unit tester's checks test_metadata_name_exists,
\* test_triggers_exist, test_skill_validate and test_skill_has_implementation
\* are all Passed and no test_parameter_<name>_no_default check is Failed.
C35_UnitAgreesWithRegister ==
    last.op = "unit_run_all_tests" =>
        /\ \A name \in {"test_metadata_name_exists", "test_triggers_exist",
                        "test_skill_validate", "test_skill_has_implementation"} :
              /\ \E k \in 1..Len(last.results) : last.results[k].test_name = name
              /\ \A k \in 1..Len(last.results) :
                    last.results[k].test_name = name
                        => last.results[k].status = "passed"
        /\ \A p \in 1..Len(last.skill.parameters) :
              \A k \in 1..Len(last.results) :
                 last.results[k].test_name
                       = "test_parameter_" \o last.skill.parameters[p].name \o "_no_default"
                    => last.results[k].status = "passed"

\* the unit tester ran on a stored skill with a required parameter, in a
\* registry that holds a second skill
C35_Witness ==
    /\ last.op = "unit_run_all_tests"
    /\ last.skill = CodeReview(Ver900)
    /\ Len(registry) >= 2
    /\ \E k \in 1..Len(last.results) :
          /\ last.results[k].test_name = "test_parameter_code_no_default"
          /\ last.results[k].status = "passed"

----------------------------------------------------------------------------
(* A test session: the testers, the detector, the runner and the gates at
   work on one registry *)

\* TriggerTestSuite.test_trigger_matching from case idx on (idx counts from 0);
\* a case is [input, context, should_trigger]
RECURSIVE TestTriggerMatching(_, _, _)
TestTriggerMatching(skill, test_cases, idx) ==
    IF idx >= Len(test_cases) THEN <<>>
    ELSE LET test_case == test_cases[idx + 1]
             actual_trigger == CanTrigger(skill, test_case.input, test_case.context)
         IN <<TestResult("test_trigger_case_" \o <<"0", "1", "2">>[idx + 1],
                         IF actual_trigger = test_case.should_trigger
                         THEN "passed" ELSE "failed", "", 0)>>
            \o TestTriggerMatching(skill, test_cases, idx + 1)

\* a call of a method of the registry
RegistryCall(method, name, version) ==
    [method |-> method, name |-> name, version |-> version]

\* faulty variant of the registry's lookups: get takes the entries of the name
\* out of the dictionary
SkillsAfterCallPopped(reg, call) ==
    LET Kept(entry) == entry.skill.metadata.name # call.name
    IN IF call.method = "get" THEN SelectSeq(reg, Kept) ELSE reg

\* self.skills after get, find_by_trigger or list_all: the three read the
\* dictionary (get, values) and build new lists; none assigns to it
SkillsAfterCall(reg, call) ==
    CASE call.method = "get" -> reg
      [] call.method = "find_by_trigger" -> reg
      [] call.method = "list_all" -> reg

\* self.skills after a sequence of calls
RECURSIVE SkillsAfterCalls(_, _)
SkillsAfterCalls(reg, calls) ==
    IF calls = <<>> THEN reg
    ELSE SkillsAfterCalls(SkillsAfterCall(reg, Head(calls)), Tail(calls))

\* the registry calls of SkillIntegrationTester.run_test_case: the lookup
IntRegistryCalls(test_case) ==
    <<RegistryCall("get", test_case.skill_name, test_case.skill_version)>>

\* the registry calls of SkillIntegrationTester.run_test_suite
RECURSIVE IntSuiteRegistryCalls(_)
IntSuiteRegistryCalls(test_cases) ==
    IF test_cases = <<>> THEN <<>>
    ELSE IntRegistryCalls(Head(test_cases)) \o IntSuiteRegistryCalls(Tail(test_cases))

\* the registry calls of E2ETestRunner.run_test_case: one lookup for each step
\* the workflow reached
E2ERegistryCalls(test_case, events) ==
    LET IsLookup(event) == event.kind \in {"lookup", "execute"}
        lookups == SelectSeq(events, IsLookup)
        StepOf(name) == CHOOSE i \in 1..Len(test_case.workflow) :
                            test_case.workflow[i].name = name
    IN [k \in 1..Len(lookups) |->
           RegistryCall("get", test_case.workflow[StepOf(lookups[k].name)].skill_name,
                        Empty)]

\* the registry calls of E2ETestRunner.run_test_suite
RECURSIVE E2ESuiteRegistryCalls(_, _, _)
E2ESuiteRegistryCalls(reg, test_cases, oracles) ==
    IF test_cases = <<>> THEN <<>>
    ELSE E2ERegistryCalls(Head(test_cases),
                          E2ERunTestCase(reg, Head(test_cases), Head(oracles).env,
                                         Head(oracles).duration).events)
         \o E2ESuiteRegistryCalls(reg, Tail(test_cases), Tail(oracles))

\* the registry calls of UnifiedTestRunner.run_all_tests: list_all or one get
\* for each name asked for, then those of the integration and the E2E suite
RunnerRegistryCalls(reg, call) ==
    (IF call.skills_to_test = <<>> THEN <<RegistryCall("list_all", Empty, Empty)>>
     ELSE [i \in 1..Len(call.skills_to_test[1]) |->
              RegistryCall("get", call.skills_to_test[1][i], Empty)])
    \o (IF call.run_integration /\ Truthy(call.integration_tests)
        THEN IntSuiteRegistryCalls(call.integration_tests) ELSE <<>>)
    \o (IF call.run_e2e /\ Truthy(call.e2e_tests)
        THEN E2ESuiteRegistryCalls(reg, call.e2e_tests, call.e2e_oracles) ELSE <<>>)

\* the counts of a summary or of the aggregate metrics
SummaryCounts(total, passed, failed, errors) ==
    [total |-> total, passed |-> passed, failed |-> failed, errors |-> errors]

\* the trigger cases a suite is given
TriggerCases ==
    LET Case(input, context, should_trigger) ==
            [input |-> input, context |-> context, should_trigger |-> should_trigger]
    IN {<<>>,
        <<Case(PatAb, <<>>, TRUE)>>,
        <<Case(PatAb, <<>>, FALSE), Case(<<97>>, <<>>, FALSE)>>,
        <<Case(<<120>>, <<{<<"action", Str("review")>>}>>, TRUE),
          Case(<<120>>, <<{}>>, TRUE)>>}

\* the E2E cases of a session: a step on the review skill, a step on a name
\* nobody registered, a workspace that is not provisioned
SessionE2EFixtures ==
    LET base == E2EFixture("e2e_pass", TRUE, 3)
        lost == E2EFixture("e2e_lost", TRUE, 3)
    IN {base, E2EFixture("e2e_error", FALSE, 0),
        [lost EXCEPT !.test_case.workflow[1].skill_name = <<120>>]}

\* the snapshots handed to the detector directly
SessionSnapshots ==
    {m \in SnapshotPool : m.total_tests = 1 /\ m.total_duration_ms = 2}

\* the runs of a session: run_all_tests called directly, or through a gate
SessionRuns ==
    {[op |-> "run_all_tests", arg |-> "", call |-> RunnerCall(names, ints, e2es, flags)] :
        names \in SkillsToTest,
        ints \in {s \in IntSuites : Len(s) = 2},
        e2es \in {<<E2EFixture("e2e_pass", TRUE, 3)>>, <<E2EFixture("e2e_error", FALSE, 0)>>},
        flags \in {<<TRUE, TRUE, TRUE, TRUE>>, <<FALSE, TRUE, TRUE, FALSE>>}}
    \cup {[op |-> gate.name, arg |-> gate.arg, call |-> GateCall(gate)] : gate \in Gates}

InitSession ==
    /\ registry \in {RegisterResult(<<>>, CodeReview(Ver100)).skills, ExampleRegistry}
    /\ invocations = <<>>
    /\ int_results = <<>>
    /\ e2e_results = <<>>
    /\ executions = <<>>
    /\ all_results = <<>>
    /\ baseline = <<>>
    /\ last = [op |-> "init"]

\* what an operation of the session leaves in last, and in the registry
SessionStep(op, calls, results, summary) ==
    /\ registry' = SkillsAfterCalls(registry, calls)
    /\ last' = [op |-> op, calls |-> calls, results |-> results, summary |-> summary]

\* SkillUnitTester(skill).run_all_tests() and get_summary() on the i-th skill
SessionUnitOp(i) ==
    /\ i \in 1..Len(registry)
    /\ \E results \in {UnitRunAllTests(registry[i].skill)} :
          SessionStep("unit_run_all_tests", <<>>, results,
              <<SummaryCounts(UnitGetSummary(results).total,
                              UnitGetSummary(results).passed,
                              UnitGetSummary(results).failed,
                              UnitGetSummary(results).errors)>>)
    /\ UNCHANGED <<invocations, int_results, e2e_results, executions, all_results,
                   baseline>>

\* TriggerTestSuite(skill).test_trigger_matching(test_cases) on the i-th skill
SessionTriggerOp(i, test_cases) ==
    /\ i \in 1..Len(registry)
    /\ SessionStep("test_trigger_matching", <<>>,
                   TestTriggerMatching(registry[i].skill, test_cases, 0), <<>>)
    /\ UNCHANGED <<invocations, int_results, e2e_results, executions, all_results,
                   baseline>>

\* SkillIntegrationTester(registry).run_test_case(test_case) and get_summary()
\* on a tester built for the call and dropped after it
SessionIntegrationOp(fixture) ==
    /\ \E run \in {IntRunTestCase(registry, fixture.test_case, fixture.oracle.body,
                                  fixture.oracle.duration)} :
          /\ SessionStep("int_run_test_case", IntRegistryCalls(fixture.test_case),
                 <<run.result>>,
                 <<SummaryCounts(IntGetSummary(<<run.result>>, run.appended).total,
                                 IntGetSummary(<<run.result>>, run.appended).passed,
                                 IntGetSummary(<<run.result>>, run.appended).failed,
                                 IntGetSummary(<<run.result>>, run.appended).errors)>>)
    /\ UNCHANGED <<invocations, int_results, e2e_results, executions, all_results,
                   baseline>>

\* PerformanceTester(registry).benchmark_skill(skill_name, params, iterations)
SessionBenchmarkOp(skill_name, bodies) ==
    /\ SessionStep("benchmark_skill",
                   <<RegistryCall("get", skill_name, Empty)>>, <<>>, <<>>)
    /\ BenchmarkSkill(registry, skill_name, {<<"code", Str("x")>>}, bodies).kind
          \in {"error", "stats"}
    /\ UNCHANGED <<invocations, int_results, e2e_results, executions, all_results,
                   baseline>>

\* E2ETestRunner(registry).run_test_case(test_case) and get_summary() on a
\* runner built for the call and dropped after it
SessionE2EOp(fixture) ==
    /\ \E run \in {E2ERunTestCase(registry, fixture.test_case, fixture.oracle.env,
                                  fixture.oracle.duration)} :
          /\ SessionStep("e2e_run_test_case",
                 E2ERegistryCalls(fixture.test_case, run.events), <<run.result>>,
                 <<SummaryCounts(E2EGetSummary(<<run.result>>, run.appended).total,
                                 E2EGetSummary(<<run.result>>, run.appended).passed,
                                 E2EGetSummary(<<run.result>>, run.appended).failed,
                                 E2EGetSummary(<<run.result>>, run.appended).errors)>>)
    /\ UNCHANGED <<invocations, int_results, e2e_results, executions, all_results,
                   baseline>>

\* RegressionDetector().detect_regression(current_metrics), the caller saving
\* the baseline when told to
SessionDetectOp(current) ==
    /\ \E result \in {DetectRegression(baseline, current)} :
          /\ ~result.raised
          /\ baseline' = BaselineAfter(baseline, result, current)
          /\ SessionStep("detect_regression", <<>>, <<>>, <<>>)
    /\ UNCHANGED <<invocations, int_results, e2e_results, executions, all_results>>

\* runner.run_all_tests(...), called directly or by a gate of the pipeline
SessionRunOp(run) ==
    /\ \E results \in {RunAllTests(registry, baseline, run.call)} :
          /\ all_results' = results.all_results
          /\ baseline' = results.file
          /\ SessionStep(run.op, RunnerRegistryCalls(registry, run.call),
                 results.all_results,
                 <<SummaryCounts(results.metrics.total_tests, results.metrics.passed,
                                 results.metrics.failed, results.metrics.errors)>>)
    /\ UNCHANGED <<invocations, int_results, e2e_results, executions>>

NextSession ==
    \/ \E i \in 1..MaxRegistry : SessionUnitOp(i)
    \/ \E i \in 1..MaxRegistry, test_cases \in TriggerCases :
          SessionTriggerOp(i, test_cases)
    \/ \E fixture \in TesterFixtures : SessionIntegrationOp(fixture)
    \/ \E skill_name \in {NameCr, <<120>>},
          bodies \in {<<o, o>> : o \in IterationOutcomes} : SessionBenchmarkOp(skill_name, bodies)
    \/ \E fixture \in SessionE2EFixtures : SessionE2EOp(fixture)
    \/ \E current \in SessionSnapshots : SessionDetectOp(current)
    \/ \E run \in SessionRuns : SessionRunOp(run)

SpecSession == InitSession /\ [][NextSession]_vars

\* C32: the registry is read-only during a test run: no operation of the unit
\* tester, trigger suite, integration tester, performance tester, E2E runner,
\* regression detector, unified runner or CI gates adds, removes or replaces
\* a registry entry, so the mapping after any sequence of these operations
\* equals the mapping before it.
C32_RegistryReadOnly == [][registry' = registry]_vars

\* a run of the unified runner that asked the registry for its skills and
\* looked up the skills of two integration cases and of an E2E case
C32_Witness ==
    /\ last.op = "run_all_tests"
    /\ Len(last.calls) = 4
    /\ \E k \in 1..Len(last.calls) : last.calls[k].method = "list_all"
    /\ \E k \in 1..Len(last.calls) : last.calls[k].method = "get"
    /\ Len(registry) = 3

\* the statuses the testers hand out
ProducedStatuses == {"passed", "failed", "error"}

\* C36: no operation of the unit tester, trigger suite, integration tester or
\* E2E runner ever produces a result with status Skipped; hence in every
\* summary and in the unified runner's aggregate metrics
\* passed + failed + errors = total.
C36_NoSkippedAndCountsAddUp ==
    last.op \in {"unit_run_all_tests", "test_trigger_matching", "int_run_test_case",
                 "e2e_run_test_case", "run_all_tests", "run_pre_commit_hook",
                 "run_on_skill_change", "run_nightly_tests"} =>
        /\ \A k \in 1..Len(last.results) :
              /\ last.results[k].status # "skipped"
              /\ last.results[k].status \in ProducedStatuses
        /\ \A s \in 1..Len(last.summary) :
              /\ last.summary[s].total = Len(last.results)
              /\ last.summary[s].passed + last.summary[s].failed
                    + last.summary[s].errors = last.summary[s].total

\* a run of the unified runner whose ledger holds results of all three
\* statuses, the unit tester's among them
C36_Witness ==
    /\ last.op = "run_all_tests"
    /\ \A status \in ProducedStatuses : HasStatus(last.results, status)
    /\ Len(last.results) > 21
    /\ last.summary[1].total = Len(last.results)

----------------------------------------------------------------------------
(* run_test_case as its caller sees it: a result handed back, or an
   exception that leaves the call *)

\* faulty variant of the handlers: `except ValueError`
ExceptValueErrorHandles(cls) == cls = "ValueError"

\* an `except Exception` clause handles an exception of the class: the class
\* derives from Exception, which KeyboardInterrupt, SystemExit and
\* GeneratorExit do not
ExceptExceptionHandles(cls) ==
    cls \notin {"BaseException", "KeyboardInterrupt", "SystemExit", "GeneratorExit"}

\* the first class of the sequence that no handler takes, "None" if there is none
RECURSIVE FirstUnhandled(_)
FirstUnhandled(classes) ==
    IF classes = <<>> THEN "None"
    ELSE IF ~ExceptExceptionHandles(Head(classes)) THEN Head(classes)
    ELSE FirstUnhandled(Tail(classes))

\* a body that raises
RaisingBody == [raises |-> TRUE, output |-> None]

\* tester.run_test_case(test_case) of the integration tester. exc.validator is
\* the class a validator of the skill raises when called ("None": it
\* returns), exc.body the class the body raises when it raises. raised lists
\* the classes raised during the call.
IntRunTestCaseCall(reg, test_case, body, exc, duration) ==
    LET found == RegistryGet(reg, test_case.skill_name, test_case.skill_version)
        skill == found[1]
        validator_called ==
            \E i \in 1..Len(skill.parameters) :
                /\ skill.parameters[i].name \in Provided(test_case.input_params)
                /\ skill.parameters[i].validation # "None"
        in_validator == found # <<>> /\ validator_called /\ exc.validator # "None"
        res == Execute(skill, test_case.input_params, body)
        run == IntRunTestCase(reg, test_case,
                              IF in_validator THEN RaisingBody ELSE body, duration)
        raised ==
            IF found = <<>> THEN <<>>
            ELSE IF in_validator THEN <<exc.validator>>
            ELSE IF res.raised
            THEN <<IF res.body_invoked THEN exc.body ELSE res.exc>>
            ELSE IF test_case.should_succeed
                    /\ ValidateOutput(res.output, test_case.expected_output,
                                      test_case.expected_output_type).raised
            THEN <<"TypeError">>
            ELSE <<>>
    IN IF FirstUnhandled(raised) # "None"
       THEN [returned |-> <<>>, propagated |-> FirstUnhandled(raised),
             raised |-> raised, appended |-> <<>>]
       ELSE [returned |-> <<run.result>>, propagated |-> "None",
             raised |-> raised, appended |-> run.appended]

\* the class raised at an event of an E2E run, "None" when the event raised
\* nothing; exc gives the class for each hook
RaisedAt(test_case, env, exc, event) ==
    LET StepOf(name) == CHOOSE i \in 1..Len(test_case.workflow) :
                            test_case.workflow[i].name = name
    IN CASE event.kind = "provision" /\ event.detail = "raises" -> "CalledProcessError"
         [] event.kind = "setup_hook" /\ event.detail = "raises" -> exc.setup_hook
         [] event.kind = "execute" /\ event.detail = "rejected" -> "ValueError"
         [] event.kind = "execute" /\ event.detail = "body"
               /\ env.steps[StepOf(event.name)].body.raises -> exc.body
         [] event.kind = "step_validation" /\ event.detail = "raises" ->
               exc.step_validation
         [] event.kind = "teardown" /\ event.detail = "raises" -> exc.teardown
         [] OTHER -> "None"

\* runner.run_test_case(test_case) of the E2E runner. What is raised in the
\* try block and taken by no handler passes through the finally clause, where
\* the teardown hook still runs; what the teardown hook raises and its own
\* handler does not take leaves the call in place of the return value.
E2ERunTestCaseCall(reg, test_case, env, exc, duration) ==
    LET run == E2ERunTestCase(reg, test_case, env, duration)
        IsRaise(event) == RaisedAt(test_case, env, exc, event) # "None"
        raises == SelectSeq(run.events, IsRaise)
        raised == [k \in 1..Len(raises) |-> RaisedAt(test_case, env, exc, raises[k])]
        IsTry(event) == event.kind # "teardown"
        in_try == SelectSeq(raises, IsTry)
        try_classes == [k \in 1..Len(in_try) |->
                           RaisedAt(test_case, env, exc, in_try[k])]
    IN IF FirstUnhandled(raised) # "None"
       THEN [returned |-> <<>>,
             propagated |-> FirstUnhandled(
                                [k \in 1..Len(raised) |-> raised[Len(raised) + 1 - k]]),
             raised |-> raised,
             appended |-> IF FirstUnhandled(try_classes) # "None" THEN <<>>
                          ELSE run.appended]
       ELSE [returned |-> <<run.result>>, propagated |-> "None",
             raised |-> raised, appended |-> run.appended]

\* the classes the hooks, validators and bodies of the calls raise
RaisedClasses == {"ValueError", "RuntimeError", "KeyboardInterrupt"}

\* the integration cases called: each example skill and a name nobody
\* registered, with parameters that are accepted, rejected or incomplete
CallCases ==
    {IntegrationTestCase("case", n, Empty, ps, None, "", ss) :
        n \in {NameCr, NameTg, <<120>>}, ps \in IntParamChoices, ss \in BOOLEAN}

\* the call drawn: an integration case with what its validator and body do, or
\* an E2E case of one step of each scenario, with or without hooks
InitCalls ==
    /\ registry = ExampleRegistry
    /\ invocations = <<>>
    /\ int_results = <<>>
    /\ e2e_results = <<>>
    /\ executions = <<>>
    /\ all_results = <<>>
    /\ baseline = <<>>
    /\ \/ \E tc \in CallCases, raises \in BOOLEAN,
             validator \in RaisedClasses \cup {"None"}, cls \in RaisedClasses :
             last = [op |-> "call_int_run_test_case", test_case |-> tc,
                     body |-> [raises |-> raises,
                               output |-> IF raises THEN None ELSE PyDict("review")],
                     exc |-> [validator |-> validator, body |-> cls]]
       \/ \E scenario \in StepScenarios, provision_ok \in BOOLEAN,
             setup \in {"none", "returns", "raises"},
             teardown \in {"none", "returns", "raises"},
             cls \in RaisedClasses, teardown_cls \in RaisedClasses :
             last = [op |-> "call_e2e_run_test_case",
                     test_case |->
                         E2ETestCase("e2e",
                             <<WorkflowStep("s1", scenario.skill_name,
                                            scenario.input_params,
                                            scenario.has_validation)>>,
                             setup # "none", teardown # "none", <<>>, 0, <<>>),
                     env |-> [provision_ok |-> provision_ok,
                              setup_raises |-> (setup = "raises"),
                              steps |-> <<[body |-> scenario.body,
                                           valid |-> scenario.valid]>>,
                              missing_files |-> {},
                              git |-> [raises |-> FALSE, count |-> 0],
                              commands |-> <<>>,
                              teardown_raises |-> (teardown = "raises")],
                     exc |-> [setup_hook |-> cls, body |-> cls,
                              step_validation |-> cls, teardown |-> teardown_cls]]

\* tester.run_test_case(test_case), seen from the caller
IntRunTestCaseCallOp ==
    /\ last.op = "call_int_run_test_case"
    /\ \E call \in {IntRunTestCaseCall(registry, last.test_case, last.body,
                                       last.exc, 4)} :
          /\ invocations' = invocations \o call.appended
          /\ last' = [op |-> "int_run_test_case", test_case |-> last.test_case,
                      body |-> last.body, exc |-> last.exc,
                      returned |-> call.returned, propagated |-> call.propagated,
                      raised |-> call.raised]
    /\ UNCHANGED <<registry, int_results, e2e_results, executions, all_results,
                   baseline>>

\* runner.run_test_case(test_case), seen from the caller
E2ERunTestCaseCallOp ==
    /\ last.op = "call_e2e_run_test_case"
    /\ \E call \in {E2ERunTestCaseCall(registry, last.test_case, last.env,
                                       last.exc, 0)} :
          /\ executions' = executions \o call.appended
          /\ last' = [op |-> "e2e_run_test_case", test_case |-> last.test_case,
                      env |-> last.env, exc |-> last.exc,
                      returned |-> call.returned, propagated |-> call.propagated,
                      raised |-> call.raised]
    /\ UNCHANGED <<registry, invocations, int_results, e2e_results, all_results,
                   baseline>>

NextCalls ==
    \/ IntRunTestCaseCallOp
    \/ E2ERunTestCaseCallOp

SpecCalls == InitCalls /\ [][NextCalls]_vars

\* C34: run_test_case of the Integration Tester and of the E2E Runner always
\* returns exactly one TestResult with status Passed, Failed or Error and
\* never propagates an exception raised by a skill body, a parameter
\* validator, a setup hook or a step validation predicate; an exception raised
\* by the E2E teardown hook is swallowed and does not change the status of the
\* returned result.
C34_AlwaysOneResult ==
    last.op \in {"int_run_test_case", "e2e_run_test_case"} =>
        /\ Len(last.returned) = 1
        /\ last.returned[1].status \in {"passed", "failed", "error"}
        /\ last.propagated = "None"

\* the classes deriving from Exception among those raised in the calls
OrdinaryClasses ==
    {"ValueError", "RuntimeError", "TypeError", "NotImplementedError",
     "CalledProcessError", "Exception"}

\* C34, as amended: when what the skill body, the parameter validator, the
\* setup hook, the step validation predicate and the teardown hook raise
\* derives from Exception, run_test_case returns exactly one TestResult with
\* status Passed, Failed or Error and propagates nothing, and the status is
\* the one the same run has with a teardown hook that returns; an exception
\* that does not derive from Exception leaves the call and no result is
\* returned.
C34_OneResultUnlessNotAnException ==
    last.op \in {"int_run_test_case", "e2e_run_test_case"} =>
        IF \A k \in 1..Len(last.raised) : last.raised[k] \in OrdinaryClasses
        THEN /\ Len(last.returned) = 1
             /\ last.returned[1].status \in {"passed", "failed", "error"}
             /\ last.propagated = "None"
             /\ last.op = "e2e_run_test_case" =>
                   last.returned[1].status
                      = E2ERunTestCase(registry, last.test_case,
                                       [last.env EXCEPT !.teardown_raises = FALSE],
                                       0).result.status
        ELSE /\ last.returned = <<>>
             /\ last.propagated \in {last.raised[k] : k \in 1..Len(last.raised)}
                                       \ OrdinaryClasses

\* an E2E run whose step validation predicate and teardown hook both raised
\* exceptions deriving from Exception: one Failed result is returned
C34_Witness ==
    /\ last.op = "e2e_run_test_case"
    /\ last.raised = <<"RuntimeError", "ValueError">>
    /\ last.test_case.workflow[1].has_validation
    /\ last.env.steps[1].valid = "raises"
    /\ last.env.teardown_raises
    /\ Len(last.returned) = 1
    /\ last.returned[1].status = "failed"

----------------------------------------------------------------------------
(* Claims about the on-change gate called for a name nobody registered *)

\* no skill of the registry has the name
NotRegistered(reg, name) ==
    \A i \in 1..Len(reg) : reg[i].skill.metadata.name # name

\* C38: run_on_skill_change(name) for a name that is not in the registry
\* executes zero tests: the skill is silently dropped from the target set, the
\* ledger is empty, no Error result is produced, and the ledger-based verdict
\* is pass; the gate then returns false only if regression detection flags
\* the empty snapshot (pass-rate 0%) against an existing baseline, and returns
\* true (saving that empty snapshot as the baseline) when no baseline exists.
C38_UnknownNameRunsNothing ==
    (last.op = "run_on_skill_change" /\ NotRegistered(registry, last.arg)) =>
        /\ ~last.raised
        /\ all_results = <<>>
        /\ last.metrics.total_tests = 0
        /\ last.metrics.errors = 0
        /\ last.metrics.pass_rate = 0
        /\ OverallVerdict(all_results)
        /\ ~last.returned =>
              /\ last.file_before # <<>>
              /\ last.regression[1].has_regression
              /\ HasEntry(last.regression[1], "pass_rate")
        /\ last.file_before = <<>> =>
              /\ last.returned
              /\ last.regression[1].action = "save_baseline"
              /\ baseline = <<last.metrics>>

\* the gate was called for an unregistered name on a registry that holds
\* skills, with a baseline whose pass rate the empty run falls short of, and
\* answered false
C38_Witness ==
    /\ last.op = "run_on_skill_change"
    /\ NotRegistered(registry, last.arg)
    /\ registry # <<>>
    /\ last.file_before # <<>>
    /\ ~last.returned
    /\ baseline = last.file_before

----------------------------------------------------------------------------
(* Two unified runners in their regression phase, sharing the baseline file
   of the working directory. last holds, for each runner, where it stands
   (pc), the metrics of its ledger (current), what it found (seen), whether
   another runner wrote the file since this one opened it (overlaid), and the
   order in which the runners wrote (writes). *)

Runners == {1, 2}

\* the file right after open(baseline_file, 'w'): it exists and holds nothing
TruncatedFile == <<[text |-> "empty"]>>

\* the file after a shorter text was written over the start of a longer one
GarbledFile == <<[text |-> "garbled"]>>

\* faulty variant of the existence test: the file is never found
FileExistsNever(file) == FALSE

\* os.path.exists(self.baseline_file)
FileExists(file) == file # <<>>

\* json.load raises on the file: it holds no JSON document
LoadRaises(file) == file \in {TruncatedFile, GarbledFile}

\* the metrics the two runs computed from their ledgers
ConcurrentSnapshots ==
    {m \in SnapshotPool : /\ m.total_tests \in {1, 25}
                          /\ m.passed \in {1, 24}
                          /\ m.total_duration_ms = 2 * m.total_tests}
    \cup {Snapshot(0, 0, 0, 0, 0, 0, [num |-> 0, den |-> 1])}

InitConcurrent ==
    /\ registry = ExampleRegistry
    /\ invocations = <<>>
    /\ int_results = <<>>
    /\ e2e_results = <<>>
    /\ executions = <<>>
    /\ all_results = <<>>
    /\ baseline = <<>>
    /\ \E current \in [Runners -> ConcurrentSnapshots] :
          last = [op |-> "regression_phase",
                  pc |-> [p \in Runners |-> "exists"],
                  current |-> current,
                  seen |-> [p \in Runners |-> "nothing"],
                  began_after |-> [p \in Runners |-> "nothing"],
                  overlaid |-> [p \in Runners |-> FALSE],
                  writes |-> <<>>]

\* load_baseline, first half: the existence test. Without a file
\* detect_regression answers action = "save_baseline" and the runner goes on
\* to save_baseline. began_after keeps where the other runner stood.
ExistsStep(p) ==
    /\ last.op = "regression_phase"
    /\ last.pc[p] = "exists"
    /\ last' = [last EXCEPT
                   !.pc[p] = IF FileExists(baseline) THEN "read" ELSE "open",
                   !.seen[p] = IF FileExists(baseline) THEN "file" ELSE "no baseline",
                   !.began_after[p] = last.pc[CHOOSE q \in Runners : q # p]]
    /\ UNCHANGED <<registry, invocations, int_results, e2e_results, executions,
                   all_results, baseline>>

\* load_baseline, second half, and the rest of detect_regression: the file is
\* read and compared; nothing is saved
ReadStep(p) ==
    /\ last.op = "regression_phase"
    /\ last.pc[p] = "read"
    /\ last' = [last EXCEPT
                   !.pc[p] = IF LoadRaises(baseline) THEN "raised"
                             ELSE IF DetectRegression(baseline, last.current[p]).raised
                             THEN "raised" ELSE "done",
                   !.seen[p] = IF LoadRaises(baseline) THEN "no document"
                               ELSE "baseline"]
    /\ UNCHANGED <<registry, invocations, int_results, e2e_results, executions,
                   all_results, baseline>>

\* save_baseline, first half: open(self.baseline_file, 'w') truncates the file
OpenStep(p) ==
    /\ last.op = "regression_phase"
    /\ last.pc[p] = "open"
    /\ baseline' = TruncatedFile
    /\ last' = [last EXCEPT !.pc[p] = "dump", !.overlaid[p] = FALSE]
    /\ UNCHANGED <<registry, invocations, int_results, e2e_results, executions,
                   all_results>>

\* save_baseline, second half: json.dump and the close that writes the text
\* at the start of the file. Over a text another runner wrote since this one
\* opened the file, the file ends up as this runner's text or, when the other
\* text was longer, as neither.
DumpStep(p, garbled) ==
    /\ last.op = "regression_phase"
    /\ last.pc[p] = "dump"
    /\ garbled => last.overlaid[p]
    /\ baseline' = IF garbled THEN GarbledFile ELSE SaveBaseline(last.current[p])
    /\ last' = [last EXCEPT
                   !.pc[p] = "done",
                   !.overlaid = [q \in Runners |->
                                    IF q # p /\ last.pc[q] = "dump" THEN TRUE
                                    ELSE last.overlaid[q]],
                   !.writes = Append(@, [runner |-> p, over |-> last.overlaid[p],
                                         garbled |-> garbled])]
    /\ UNCHANGED <<registry, invocations, int_results, e2e_results, executions,
                   all_results>>

NextConcurrent ==
    \/ \E p \in Runners : ExistsStep(p)
    \/ \E p \in Runners : ReadStep(p)
    \/ \E p \in Runners : OpenStep(p)
    \/ \E p \in Runners, garbled \in BOOLEAN : DumpStep(p, garbled)

SpecConcurrent == InitConcurrent /\ [][NextConcurrent]_vars

\* both runners have left the regression phase
BothFinished ==
    /\ last.op = "regression_phase"
    /\ \A p \in Runners : last.pc[p] \in {"done", "raised"}

\* the runs were serialized: one runner began when the other had finished
Serialized ==
    \E p \in Runners : last.began_after[p] \in {"done", "raised"}

\* C39: the baseline's read-then-possibly-overwrite sequence is not atomic:
\* when two unified-runner instances sharing one baseline location run their
\* regression phase concurrently while no baseline exists, there is an
\* interleaving in which both observe "no baseline", both receive
\* action=save_baseline and both write, so the persisted baseline is the
\* snapshot of whichever wrote last and the other instance's snapshot is
\* lost; when the two runs are serialized, only the first writes. As an
\* invariant: a runner writes only after it observed no baseline; once both
\* have written, one after the other, the file holds the snapshot of the
\* runner that wrote last; and serialized runs leave one write, that of the
\* runner that began first, whose snapshot the file holds.
C39_LastWriterWinsUnlessSerialized ==
    last.op = "regression_phase" =>
        /\ \A k \in 1..Len(last.writes) :
              last.seen[last.writes[k].runner] = "no baseline"
        /\ (BothFinished /\ Len(last.writes) = 2 /\ ~last.writes[2].garbled) =>
              /\ \A p \in Runners : last.seen[p] = "no baseline"
              /\ ~Serialized
              /\ baseline = SaveBaseline(last.current[last.writes[2].runner])
        /\ (BothFinished /\ Serialized) =>
              /\ Len(last.writes) = 1
              /\ last.began_after[last.writes[1].runner] = "exists"
              /\ baseline = SaveBaseline(last.current[last.writes[1].runner])
              /\ \A p \in Runners :
                    p # last.writes[1].runner => last.seen[p] = "baseline"

\* the interleaving of the claim: both runners observed no baseline and both
\* wrote, the second write coming after the first was complete; the file
\* holds the snapshot of the second writer and the first writer's is lost
C39_Witness ==
    /\ BothFinished
    /\ \A p \in Runners : last.seen[p] = "no baseline"
    /\ Len(last.writes) = 2
    /\ ~last.writes[2].over
    /\ last.current[1] # last.current[2]
    /\ baseline = SaveBaseline(last.current[last.writes[2].runner])
    /\ baseline # SaveBaseline(last.current[last.writes[1].runner])

====
